---- MODULE Spec2Model ----
(***************************************************************************)
(* Cache-consistency and change-propagation core of the IPS/MTESS report   *)
(* service: SharePointManager (src/sharepoint_manager.py) and the request  *)
(* handlers and background monitor that drive it (src/app.py).             *)
(*                                                                         *)
(* The service runs under gevent (app.py:1-2): greenlets are scheduled     *)
(* cooperatively and switch only at network calls, so every action below   *)
(* is the code a greenlet runs between two such calls.  Reading and        *)
(* writing version.json does not switch.  Time is counted in milliseconds. *)
(***************************************************************************)
EXTENDS Integers, Sequences, FiniteSets, TLC

VARIABLES
    now,                        \* time.time() and pd.Timestamp.now()
    dfs,                        \* manager.dfs: source -> table
    last_change_times,          \* manager.last_change_times
    last_local_update_times,    \* manager.last_local_update_times
    state_file,                 \* the content of version.json
    disk,                       \* how many writes of version.json can still fail
    patching,                   \* whether the _patch_worker threads are followed
    remote,                     \* the SharePoint lists: source -> sequence of items
    proc,                       \* the greenlets that run check_version and fetch_data
    patches,                    \* the running _patch_worker threads
    monitor_event,              \* app.monitor_event
    last_emitted_versions,      \* background_monitor's last_emitted_versions
    emitted,                    \* the server_update events of the last tick, kept
                                \* while only background_monitor and the clock run
    resp,                       \* the response sent by the last step, if it ended a
                                \* request, with the request it answers (to)
    log,                        \* the lines printed by the last step
    count,                      \* requests, external writes and raised ticks so far
    connected_users,            \* app.connected_users, in the order of insertion
    sockets,                    \* the sids of the connections Socket.IO holds open
    conn,                       \* manager.access_token, site_id and list_ids, and
                                \* how far __init__ has come
    fetches,                    \* the fetch_data calls that have not yet sent
                                \* their items request: source -> call
    sched                       \* the greenlet that gevent is running, and the
                                \* writers of the cache statement by statement

vars == <<now, dfs, last_change_times, last_local_update_times, state_file, disk,
          patching, remote, proc, patches, monitor_event, last_emitted_versions, emitted,
          resp, log, count, connected_users, sockets, conn, fetches, sched>>

----------------------------------------------------------------------------
(* Bounds of the model *)

\* how many times the clock advances
MaxTicks == 2

\* how many POST /api/update requests
MaxEdits == 1

\* how many GET /api/data requests
MaxChecks == 2

\* how many writes of version.json by another process
MaxExternalWrites == 1

\* how many writes of version.json fail, where writes can fail
MaxWriteFaults == 1

\* the largest integer id the properties try
MaxIdValue == 12

\* how many times the clock advances where background_monitor is followed
\* through its timeouts
MaxMonitorTicks == 8

\* how many ticks of background_monitor raise
MaxMonitorErrors == 1

\* how many Socket.IO connections can be open at once
MaxSids == 3

----------------------------------------------------------------------------
(* Program constants, in milliseconds *)

\* the 5 s grace period after a local edit
GRACE == 5000

\* check_version: the file is newer than memory by more than 0.1 s
EPS == 100

\* background_monitor: newer than the last broadcast by more than 0.001 s
EMIT_EPS == 1

\* background_monitor: monitor_event.wait(timeout=10)
WAIT == 10000

\* background_monitor: socketio.sleep(5) after an exception
BACKOFF == 5000

Sources == {"IPS", "MTESS"}

\* check_version and background_monitor go through the sources in this order
SourceOrder == <<"IPS", "MTESS">>

\* The clock is first read at 5 s, the service having started at 0 and nothing
\* having happened since: last_local_update_times starts at 0, which is then
\* no recent edit, as with the real clock.
StartTime == GRACE

\* background_monitor began its first wait when the service started
FirstWake == WAIT

\* The clock is read at instants 5 s apart and 1 ms before each of them, so
\* that a time span is 0, just below the grace period, or the grace period
TicksUsed(t) ==
    2 * ((t - StartTime) \div GRACE) + (IF (t - StartTime) % GRACE = 0 THEN 0 ELSE 1)

TickStep(t) == IF (t - StartTime) % GRACE = 0 THEN GRACE - 1 ELSE 1

\* the last reading of the clock where background_monitor is followed through
\* its timeouts
LastMonitorTime ==
    StartTime + (MaxMonitorTicks \div 2) * GRACE
              + (IF MaxMonitorTicks % 2 = 1 THEN GRACE - 1 ELSE 0)

----------------------------------------------------------------------------
(* Values *)

\* The review values: what the lists hold at first, and what a request sets
Statuses == {"REVISADO", "PENDIENTE"}

EditStatuses == {"REVISADO"}

\* A modifier name; NoName is the absent (None or empty) name, false in Python
NoName == ""

Names == {"Ana", NoName}

\* Item ids are decimal strings, kept as their sequence of digits
RowIds == [IPS |-> <<(<<1>>), (<<1, 2>>)>>, MTESS |-> <<(<<1>>)>>]

\* The ids of a request body are JSON integers or JSON strings
IntId(n) == [t |-> "int", v |-> n]

StrId(s) == [t |-> "str", v |-> s]

\* The request bodies tried: no id, one id as an integer, the other id as a
\* string, both ids
IdLists ==
    {<<>>, <<IntId(12)>>, <<StrId(<<1>>)>>, <<StrId(<<1>>), IntId(12)>>}

EmptyMap == [k \in {} |-> 0]

\* pd.DataFrame(): no columns, no rows
EmptyDF == [columns |-> FALSE, rows |-> <<>>]

----------------------------------------------------------------------------
(* Pure functions *)

RECURSIVE Digits(_)
\* str(n) of a non-negative integer: its decimal digits
Digits(n) == IF n < 10 THEN <<n>> ELSE Append(Digits(n \div 10), n % 10)

\* str(x) of a request id
PyStr(x) == IF x.t = "int" THEN Digits(x.v) ELSE x.v

\* str_ids = [str(x) for x in ids], as used by isin
StrIds(ids) == {PyStr(ids[k]) : k \in 1..Len(ids)}

\* df["ID"].isin(ids), without the conversions to strings: a row id, a string,
\* equals no integer
Mask_Raw(df, ids) ==
    {i \in 1..Len(df.rows) : \E k \in 1..Len(ids) : ids[k] = StrId(df.rows[i].ID)}

\* df["ID"].astype(str).isin(str_ids): the positions of the matching rows
Mask(df, ids) == {i \in 1..Len(df.rows) : df.rows[i].ID \in StrIds(ids)}

\* the assignments without .loc[mask, "Modified"]
SetRows_KeepsModified(df, mask, status, ts, modifier) ==
    [df EXCEPT !.rows =
        [i \in 1..Len(df.rows) |->
            IF i \in mask
            THEN [df.rows[i] EXCEPT
                    !.REVISADO = status,
                    !.ModificadoPor = IF modifier # NoName THEN modifier ELSE @]
            ELSE df.rows[i]]]

\* the three .loc[mask, ...] assignments of update_status_by_ids
SetRows(df, mask, status, ts, modifier) ==
    [df EXCEPT !.rows =
        [i \in 1..Len(df.rows) |->
            IF i \in mask
            THEN [df.rows[i] EXCEPT
                    !.REVISADO = status,
                    !.Modified = ts,
                    !.ModificadoPor = IF modifier # NoName THEN modifier ELSE @]
            ELSE df.rows[i]]]

Max(S) == CHOOSE x \in S : \A y \in S : y <= x

Min(S) == CHOOSE x \in S : \A y \in S : x <= y

\* get_formatted_date: the newest Modified of the table, to the minute
get_formatted_date(df) ==
    IF Len(df.rows) = 0 THEN "Desconocido"
    ELSE ToString(Max({df.rows[i].Modified : i \in 1..Len(df.rows)}) \div 60000)

(* version.json *)

\* The file is absent ("missing"), holds a JSON object ("json", text: key ->
\* numeral), another JSON value ("other") or no valid JSON ("corrupt").
\* Times are floats of seconds in the program and milliseconds here, so the
\* numeral of t is the text repr() gives t / 1000: the digits before the
\* point and those after it, without trailing zeros but at least one.

RECURSIVE DigitsValue(_)
\* int() of a sequence of decimal digits
DigitsValue(ds) ==
    IF Len(ds) = 0 THEN 0
    ELSE DigitsValue(SubSeq(ds, 1, Len(ds) - 1)) * 10 + ds[Len(ds)]

\* the digits after the point of m thousandths
FracDigits(m) ==
    IF m % 100 = 0 THEN <<m \div 100>>
    ELSE IF m % 10 = 0 THEN <<m \div 100, (m \div 10) % 10>>
    ELSE <<m \div 100, (m \div 10) % 10, m % 10>>

\* the digits after the point read as tenths, hundredths and thousandths
FracValue_AsInteger(ds) == DigitsValue(ds)

\* the thousandths that the digits after the point stand for
FracValue(ds) ==
    (IF Len(ds) >= 1 THEN ds[1] * 100 ELSE 0)
    + (IF Len(ds) >= 2 THEN ds[2] * 10 ELSE 0)
    + (IF Len(ds) >= 3 THEN ds[3] ELSE 0)

\* json.dump of one number
Numeral(t) == [int |-> Digits(t \div 1000), frac |-> FracDigits(t % 1000)]

\* json.load of one number
NumeralValue(n) == DigitsValue(n.int) * 1000 + FracValue(n.frac)

\* json.dump of a dict
JsonDump(d) == [k \in DOMAIN d |-> Numeral(d[k])]

\* json.load of an object
JsonLoad(o) == [k \in DOMAIN o |-> NumeralValue(o[k])]

DefaultState == [s \in Sources |-> 0]

\* {**d, **e}
Merge(d, e) == [k \in DOMAIN d \cup DOMAIN e |-> IF k \in DOMAIN e THEN e[k] ELSE d[k]]

\* _read_state: the defaults unless the file holds a JSON object without "version"
\* a _read_state without the backwards compatibility check
ReadState_NoLegacy(f) ==
    IF f.kind = "json"
    THEN Merge(DefaultState, JsonLoad(f.text))
    ELSE DefaultState

ReadState(f) ==
    IF f.kind = "json" /\ "version" \notin DOMAIN f.text
    THEN Merge(DefaultState, JsonLoad(f.text))
    ELSE DefaultState

\* the line _save_state prints when its write raises
SaveFailed == [msg |-> "Error saving state"]

SaveLog(w) == IF w = "ok" THEN {} ELSE {SaveFailed}

\* a _save_state that writes nothing
SaveState_Skip(f, times_dict, w) == f

\* _save_state: open(state_file, 'w') truncates the file, json.dump writes it;
\* an error is caught and printed.  w is how the write ends: "ok", "partial"
\* (an error after the file was truncated) or "denied" (open fails).
SaveState(f, times_dict, w) ==
    CASE w = "ok" -> [kind |-> "json", text |-> JsonDump(times_dict)]
      [] w = "partial" -> [kind |-> "corrupt", text |-> EmptyMap]
      [] OTHER -> f

WriteOutcomes == IF disk > 0 THEN {"ok", "partial", "denied"} ELSE {"ok"}

\* the failures left once a step has printed the lines l
DiskAfter(l) == IF SaveFailed \in l THEN disk - 1 ELSE disk

----------------------------------------------------------------------------
(* The SharePoint lists *)

InitialItem(id) ==
    [id |-> id, lastModifiedDateTime |-> 0, REVISADO |-> "PENDIENTE",
     ModificadoPor |-> "RPA"]

InitialRemote ==
    [s \in Sources |-> [i \in 1..Len(RowIds[s]) |-> InitialItem(RowIds[s][i])]]

\* the MAPPING LOGIC of fetch_data: one row per item
MapItem(item) ==
    [ID |-> item.id,
     Modified |-> item.lastModifiedDateTime,
     REVISADO |-> item.REVISADO,
     ModificadoPor |-> item.ModificadoPor]

\* new_df without the last item fetched
NewDF_DropsLast(items) ==
    [columns |-> TRUE, rows |-> [i \in 1..(Len(items) - 1) |-> MapItem(items[i])]]

\* new_df of fetch_data; the "#" column is the position in rows
NewDF(items) == [columns |-> TRUE, rows |-> [i \in 1..Len(items) |-> MapItem(items[i])]]

----------------------------------------------------------------------------
(* The connection to SharePoint *)

\* the keys of manager.list_ids
ListKeys == {"IPS", "MTESS", "WHITELIST"}

\* the display names of the lists: list_name_ips, list_name_mtess,
\* list_name_whitelist
ListName ==
    [IPS |-> "Auditoria_General", MTESS |-> "Auditoria_MTESS_IPS",
     WHITELIST |-> "whitelist_ips_mtess"]

\* Python's None
None == "None"

\* the id Graph gives the list of key k
ListId(k) == "id of " \o ListName[k]

\* the manager as __init__ finds it at "self._authenticate()": access_token
\* is not assigned anywhere before, "unset" stands for the missing attribute
Unconnected ==
    [state |-> "new", access_token |-> "unset", site_id |-> None,
     list_ids |-> [k \in ListKeys |-> None]]

\* the manager after an __init__ in which every request succeeded
Connected ==
    [state |-> "ready", access_token |-> "token", site_id |-> "site",
     list_ids |-> [k \in ListKeys |-> ListId(k)]]

\* no fetch_data call before its items request.  scans counts the calls of
\* _get_list_ids after "Missing List ID", result is what an aborted call
\* returns, started the time the call began.
NoFetch == [pc |-> "idle", scans |-> 0, result |-> "none", started |-> 0]

NoFetches == [s \in Sources |-> NoFetch]

----------------------------------------------------------------------------
(* The greenlets *)

\* the greenlets that write the cache: the handler of POST /api/update and a
\* caller of fetch_data
Writers == {"edit", "refresh"}

\* no greenlet runs (the hub waits for an event) and no writer is under way
NoSched ==
    [running |-> "hub", pc |-> [g \in Writers |-> "idle"],
     src |-> [g \in Writers |-> "IPS"]]

----------------------------------------------------------------------------
(* Initial state *)

\* "req" serves GET /api/data, "ver" serves GET /api/version, "mon" is
\* background_monitor
Procs == {"req", "mon", "ver"}

\* ticked: background_monitor has called check_version since it began its loop
\* or last raised; updated: the updated_sources of the running check_version
IdleProc ==
    [pc |-> "idle", fv |-> DefaultState, idx |-> 0, src |-> "IPS", gsrc |-> "IPS",
     refresh |-> FALSE, started |-> 0, result |-> "none", items |-> <<>>,
     until |-> 0, ticked |-> FALSE, updated |-> <<>>]

\* background_monitor in monitor_event.wait or socketio.sleep up to time t
Waiting(pc, t) == [IdleProc EXCEPT !.pc = pc, !.until = t]

InitProc == [p \in Procs |-> IF p = "mon" THEN Waiting("idle", FirstWake) ELSE IdleProc]

NoResp == [op |-> "none"]

NoCount == [edits |-> 0, checks |-> 0, writes |-> 0, errors |-> 0]

\* a background_monitor that takes 1 s for the version already broadcast
NoneEmitted_Second == [s \in Sources |-> 1000]

\* background_monitor: last_emitted_versions = {"IPS": 0, "MTESS": 0}
NoneEmitted == [s \in Sources |-> 0]

InitFiles == {[kind |-> "json", text |-> JsonDump([IPS |-> 1000, MTESS |-> 2000])]}

InitWith(d, pt) ==
    /\ now = StartTime
    /\ dfs = [s \in Sources |-> EmptyDF]
    /\ state_file \in InitFiles
    /\ last_change_times = ReadState(state_file)
    /\ last_local_update_times = [s \in Sources |-> 0]
    /\ disk = d
    /\ patching = pt
    /\ remote = InitialRemote
    /\ proc = InitProc
    /\ patches = <<>>
    /\ monitor_event = FALSE
    /\ last_emitted_versions = NoneEmitted
    /\ emitted = {}
    /\ resp = NoResp
    /\ log = {}
    /\ count = NoCount
    /\ connected_users = <<>>
    /\ sockets = {}
    /\ conn = Connected
    /\ fetches = NoFetches
    /\ sched = NoSched

\* Spec: version.json is written without errors, and the patch threads are
\* left aside: they touch nothing of the manager but its token, and
\* SharePoint's lists stay as they are
Init == InitWith(0, FALSE)

----------------------------------------------------------------------------
(* SharePointManager *)

\* no grace test at all
RecentLocalEdit_Never(t, llu) == FALSE

\* the grace test with a grace period of 5 ms: the seconds of time.time() taken
\* for milliseconds
RecentLocalEdit_Millis(t, llu) == (t - llu) < GRACE \div 1000

\* the grace test of fetch_data and check_version: a local edit less than 5 s ago
RecentLocalEdit(t, llu) == (t - llu) < GRACE

\* check_version without the 0.1 s of its comparison
NeedsSync_NoEpsilon(s, fv, lct, llu, t) ==
    /\ ~((t - llu[s]) < GRACE)
    /\ fv[s] > lct[s]

\* check_version without its grace test
NeedsSync_NoGrace(s, fv, lct, llu, t) == fv[s] > lct[s] + EPS

\* check_version, one source: outside the grace period and File > Memory
NeedsSync(s, fv, lct, llu, t) ==
    /\ ~RecentLocalEdit(t, llu[s])
    /\ fv[s] > lct[s] + EPS

\* check_version's loop from position i on: the first source it fetches, 0 if none
NextSync(i, fv, lct, llu, t) ==
    LET C == {j \in i..Len(SourceOrder) : NeedsSync(SourceOrder[j], fv, lct, llu, t)}
    IN  IF C = {} THEN 0 ELSE Min(C)

\* an edit that stamps last_local_update_times alone
EditOutcome_StampsEditOnly(ids, status, modifier, source, w) ==
    LET same == [dfs |-> dfs, lct |-> last_change_times,
                 llu |-> last_local_update_times, file |-> state_file]
    IN  IF source \notin Sources
        THEN same @@ [log |-> {}]
        ELSE IF ~dfs[source].columns
        THEN same @@ [log |-> {[msg |-> "Error updating local DF"]}]
        ELSE IF Mask(dfs[source], ids) = {}
        THEN same @@ [log |-> {[msg |-> "matched 0 rows", source |-> source]}]
        ELSE [dfs |-> [dfs EXCEPT ![source] =
                          SetRows(dfs[source], Mask(dfs[source], ids), status, now,
                                  modifier)],
              lct |-> last_change_times,
              llu |-> [last_local_update_times EXCEPT ![source] = now],
              file |-> SaveState(state_file, last_change_times, w),
              log |-> SaveLog(w)]

\* What update_status_by_ids leaves in the manager and prints; w is how its
\* write of version.json ends.  For a source that is no key of dfs the
\* method returns at once.  A table without columns raises KeyError at
\* df["ID"], which the method catches.
EditOutcome(ids, status, modifier, source, w) ==
    LET df == dfs[source]
        mask == Mask(df, ids)
        same == [dfs |-> dfs, lct |-> last_change_times,
                 llu |-> last_local_update_times, file |-> state_file]
    IN  IF source \notin Sources
        THEN same @@ [log |-> {}]
        ELSE IF ~df.columns
        THEN same @@ [log |-> {[msg |-> "Error updating local DF"]}]
        ELSE IF mask = {}
        THEN same @@ [log |-> {[msg |-> "matched 0 rows", source |-> source]}]
        ELSE LET lct == [last_change_times EXCEPT ![source] = now] IN
             [dfs |-> [dfs EXCEPT ![source] = SetRows(df, mask, status, now, modifier)],
              lct |-> lct,
              llu |-> [last_local_update_times EXCEPT ![source] = lct[source]],
              file |-> SaveState(state_file, lct, w),
              log |-> SaveLog(w)]

update_status_by_ids(ids, status, modifier, source, w) ==
    LET o == EditOutcome(ids, status, modifier, source, w) IN
    /\ dfs' = o.dfs
    /\ last_change_times' = o.lct
    /\ last_local_update_times' = o.llu
    /\ state_file' = o.file
    /\ log' = o.log
    /\ disk' = DiskAfter(o.log)

\* a thread that has sent its first PATCH when it starts
PatchJob_Started(ids, status, modifier, source) ==
    [source |-> source, ids |-> [k \in 1..Len(ids) |-> PyStr(ids[k])],
     status |-> status, modifier |-> modifier, pc |-> "status", k |-> 1,
     tries |-> <<>>]

\* patch_sharepoint_background: a thread that will run _patch_worker, which
\* begins with _authenticate; each item id goes into the URL of its request
\* as a string.  k is the position of the loop in item_ids, tries the
\* answers to the PATCH requests sent so far; a thread ends "done" after its
\* loop or "missing" at the test of the connection details.
PatchJob(ids, status, modifier, source) ==
    [source |-> source, ids |-> [k \in 1..Len(ids) |-> PyStr(ids[k])],
     status |-> status, modifier |-> modifier, pc |-> "auth", k |-> 1,
     tries |-> <<>>]

\* a dispatch for the edits that matched a row alone
patch_sharepoint_background_IfMatched(ids, status, modifier, source) ==
    IF ~patching \/ source \notin Sources THEN patches
    ELSE IF {i \in 1..Len(dfs[source].rows) :
               \E k \in 1..Len(ids) :
                  dfs[source].rows[i].ID
                     = (IF ids[k].t = "int" THEN Digits(ids[k].v) ELSE ids[k].v)} = {}
    THEN patches
    ELSE Append(patches,
                [source |-> source,
                 ids |-> [k \in 1..Len(ids) |->
                            IF ids[k].t = "int" THEN Digits(ids[k].v) ELSE ids[k].v],
                 status |-> status, modifier |-> modifier, pc |-> "auth", k |-> 1,
                 tries |-> <<>>])

patch_sharepoint_background(ids, status, modifier, source) ==
    IF patching THEN Append(patches, PatchJob(ids, status, modifier, source))
    ELSE patches

\* a fetch_data that keeps the table when a page request was not answered 200
FetchOutcome_KeepsOnError(src, result, items, started, w) ==
    IF result = "exc"
    THEN [dfs |-> dfs, lct |-> last_change_times, file |-> state_file,
          ret |-> [columns |-> FALSE, rows |-> <<>>],
          log |-> {[msg |-> "Error fetching data"]}]
    ELSE IF result = "http_error" \/ (now - last_local_update_times[src]) < GRACE
    THEN [dfs |-> dfs, lct |-> last_change_times, file |-> state_file,
          ret |-> dfs[src],
          log |-> {[msg |-> "Discarding fetch", source |-> src, started |-> started]}]
    ELSE [dfs |-> [dfs EXCEPT ![src] =
                     [columns |-> TRUE,
                      rows |-> [i \in 1..Len(items) |->
                                  [ID |-> items[i].id,
                                   Modified |-> items[i].lastModifiedDateTime,
                                   REVISADO |-> items[i].REVISADO,
                                   ModificadoPor |-> items[i].ModificadoPor]]]],
          lct |-> [last_change_times EXCEPT ![src] = now],
          file |-> IF w = "ok"
                   THEN [kind |-> "json",
                         text |-> JsonDump([last_change_times EXCEPT ![src] = now])]
                   ELSE state_file,
          ret |-> dfs[src],
          log |-> {[msg |-> "installed", source |-> src, started |-> started]}]

\* a fetch_data that stamps last_change_times when its request raises
FetchOutcome_StampsOnError(src, result, items, started, w) ==
    IF result = "exc"
    THEN [dfs |-> dfs, lct |-> [last_change_times EXCEPT ![src] = now],
          file |-> state_file, ret |-> EmptyDF,
          log |-> {[msg |-> "Error fetching data"]}]
    ELSE IF (now - last_local_update_times[src]) < GRACE
    THEN [dfs |-> dfs, lct |-> last_change_times, file |-> state_file,
          ret |-> dfs[src],
          log |-> {[msg |-> "Discarding fetch", source |-> src, started |-> started]}]
    ELSE [dfs |-> [dfs EXCEPT ![src] = NewDF(items)],
          lct |-> [last_change_times EXCEPT ![src] = now],
          file |-> SaveState(state_file, [last_change_times EXCEPT ![src] = now], w),
          ret |-> NewDF(items),
          log |-> SaveLog(w) \cup {[msg |-> "installed", source |-> src,
                                    started |-> started]}]

\* fetch_data from the arrival of the last response on: what it leaves in the
\* manager, what it returns and what it prints.  started tells the fetches
\* apart in the printed line.
FetchOutcome(src, result, items, started, w) ==
    LET same == [dfs |-> dfs, lct |-> last_change_times, file |-> state_file] IN
    IF result = "exc"
    THEN same @@ [ret |-> EmptyDF, log |-> {[msg |-> "Error fetching data"]}]
    ELSE IF RecentLocalEdit(now, last_local_update_times[src])
    THEN same @@ [ret |-> dfs[src],
                  log |-> {[msg |-> "Discarding fetch", source |-> src,
                            started |-> started]}]
    ELSE LET lct == [last_change_times EXCEPT ![src] = now]
             new_df == NewDF(items)
         IN  [dfs |-> [dfs EXCEPT ![src] = new_df],
              lct |-> lct,
              file |-> SaveState(state_file, lct, w),
              ret |-> new_df,
              log |-> SaveLog(w) \cup {[msg |-> "installed", source |-> src,
                                        started |-> started]}]

----------------------------------------------------------------------------
(* app.py *)

\* an emit loop without the comparison with the last broadcast
Emits_All(lct) == Sources

\* an emit loop that also takes a time equal to the last broadcast
Emits_NotOlder(lct) == {s \in Sources : lct[s] >= last_emitted_versions[s]}

\* background_monitor: the sources whose time is newer than the last broadcast
Emits(lct) == {s \in Sources : lct[s] > last_emitted_versions[s] + EMIT_EPS}

\* an event that carries the version of the broadcast before
ServerUpdate_LastVersion(s, lct, D) ==
    [source |-> s, version |-> last_emitted_versions[s],
     last_updated |-> get_formatted_date(D[s])]

ServerUpdate(s, lct, D) ==
    [source |-> s, version |-> lct[s], last_updated |-> get_formatted_date(D[s])]

\* the response of GET /api/data
DataResponse(source, df) ==
    [op |-> "data", code |-> 200, data |-> df, last_updated |-> get_formatted_date(df),
     to |-> [source |-> source]]

\* jsonify: a dict becomes a JSON object, a tuple or a list a JSON array
JsonObject(d) == [kind |-> "object", members |-> d]

JsonArray(t) == [kind |-> "array", items |-> t]

\* the response of GET /api/version: jsonify({"version": manager.check_version()}),
\* where check_version returns the tuple (last_change_times, updated_sources)
VersionResponse(lct, updated) ==
    [op |-> "version", code |-> 200,
     body |-> JsonObject([version |->
                 JsonArray(<<JsonObject(lct), JsonArray(updated)>>)])]

\* fetch_data up to its request to SharePoint.  Once check_version has
\* returned (j = 0) its file_versions and the refresh flag are dead.
SendFetch(r, j, src) ==
    [r EXCEPT !.pc = "fetch_sent", !.idx = j, !.src = src, !.started = now,
              !.result = "none", !.items = <<>>,
              !.fv = IF j = 0 THEN DefaultState ELSE @,
              !.refresh = IF j = 0 THEN FALSE ELSE @]

\* What greenlet p does once check_version's loop has reached position i, with
\* D and L the tables and change times at that point: the next fetch of the
\* loop or, after the loop, the rest of the caller (the emit loop of
\* background_monitor, get_data from "df = manager.dfs.get" on, the jsonify
\* of get_version).
Continue(p, r, i, D, L) ==
    LET j == NextSync(i, r.fv, L, last_local_update_times, now) IN
    IF j # 0
    THEN /\ proc' = [proc EXCEPT ![p] = SendFetch(r, j, SourceOrder[j])]
         /\ resp' = NoResp
         /\ emitted' = IF p = "mon" THEN emitted ELSE {}
         /\ UNCHANGED last_emitted_versions
    ELSE IF p = "mon"
    THEN /\ emitted' = {ServerUpdate(s, L, D) : s \in Emits(L)}
         /\ last_emitted_versions' =
                [s \in Sources |-> IF s \in Emits(L) THEN L[s]
                                   ELSE last_emitted_versions[s]]
         /\ proc' = [proc EXCEPT ![p] =
                         [Waiting("idle", now + WAIT) EXCEPT !.ticked = TRUE]]
         /\ resp' = NoResp
    ELSE IF p = "ver"
    THEN /\ resp' = VersionResponse(L, r.updated)
         /\ proc' = [proc EXCEPT ![p] = IdleProc]
         /\ emitted' = {}
         /\ UNCHANGED last_emitted_versions
    ELSE IF r.refresh \/ Len(D[r.gsrc].rows) = 0
    THEN /\ proc' = [proc EXCEPT ![p] = SendFetch(r, 0, r.gsrc)]
         /\ resp' = NoResp
         /\ emitted' = {}
         /\ UNCHANGED last_emitted_versions
    ELSE /\ resp' = DataResponse(r.gsrc, D[r.gsrc])
         /\ proc' = [proc EXCEPT ![p] = IdleProc]
         /\ emitted' = {}
         /\ UNCHANGED last_emitted_versions

\* POST /api/update
UpdateStatus(ids, status, who, source) ==
    /\ count.edits < MaxEdits
    /\ count' = [count EXCEPT !.edits = @ + 1]
    /\ IF Len(ids) = 0
       THEN /\ resp' = [op |-> "update", code |-> 400,
                        to |-> [ids |-> ids, status |-> status, who |-> who,
                                source |-> source]]
            /\ log' = {}
            /\ UNCHANGED <<dfs, last_change_times, last_local_update_times,
                           state_file, disk, patches, monitor_event>>
       ELSE /\ \E w \in WriteOutcomes : update_status_by_ids(ids, status, who, source, w)
            /\ patches' = patch_sharepoint_background(ids, status, who, source)
            /\ IF source \in Sources
               THEN /\ monitor_event' = TRUE
                    /\ resp' = [op |-> "update", code |-> 200, count |-> Len(ids),
                                last_updated |-> get_formatted_date(dfs'[source]),
                                to |-> [ids |-> ids, status |-> status, who |-> who,
                                        source |-> source]]
               ELSE \* get_formatted_date(None) raises AttributeError
                    /\ monitor_event' = monitor_event
                    /\ resp' = [op |-> "update", code |-> 500,
                                message |-> "Server Error",
                                to |-> [ids |-> ids, status |-> status, who |-> who,
                                        source |-> source]]
    /\ emitted' = {}
    /\ UNCHANGED <<connected_users, sockets, sched, conn, fetches,
                   now, patching, remote, proc, last_emitted_versions>>

\* GET /api/data up to its first request to SharePoint
GetData(source, refresh) ==
    /\ proc["req"].pc = "idle"
    /\ count.checks < MaxChecks
    /\ count' = [count EXCEPT !.checks = @ + 1]
    /\ Continue("req",
                [IdleProc EXCEPT !.fv = ReadState(state_file), !.gsrc = source,
                                 !.refresh = refresh],
                1, dfs, last_change_times)
    /\ log' = {}
    /\ UNCHANGED <<connected_users, sockets, sched, conn, fetches,
                   now, dfs, last_change_times, last_local_update_times, state_file,
                   disk, patching, remote, patches, monitor_event>>

\* GET /api/version up to the first request of check_version to SharePoint
GetVersion ==
    /\ proc["ver"].pc = "idle"
    /\ count.checks < MaxChecks
    /\ count' = [count EXCEPT !.checks = @ + 1]
    /\ Continue("ver", [IdleProc EXCEPT !.fv = ReadState(state_file)],
                1, dfs, last_change_times)
    /\ log' = {}
    /\ UNCHANGED <<connected_users, sockets, sched, conn, fetches,
                   now, dfs, last_change_times, last_local_update_times, state_file,
                   disk, patching, remote, patches, monitor_event>>

\* a wait that the event does not end
WaitOver_TimeoutOnly(event, t, until) == t >= until

\* monitor_event.wait(timeout=10) returns: the event is set or the time is up
WaitOver(event, t, until) == event \/ t >= until

\* background_monitor: the wait ends (signal or timeout), the event is cleared
\* and check_version runs up to its first request to SharePoint
MonitorTick ==
    /\ proc["mon"].pc = "idle"
    /\ WaitOver(monitor_event, now, proc["mon"].until)
    /\ monitor_event' = FALSE
    /\ Continue("mon", [IdleProc EXCEPT !.fv = ReadState(state_file), !.ticked = TRUE],
                1, dfs, last_change_times)
    /\ log' = {}
    /\ UNCHANGED <<connected_users, sockets, sched, conn, fetches,
                   now, dfs, last_change_times, last_local_update_times, state_file,
                   disk, patching, remote, patches, count>>

\* the line background_monitor prints when a tick raises
MonitorFailed == [msg |-> "Monitor Error"]

\* a background_monitor that an exception in a tick ends
AfterError_Ends == [IdleProc EXCEPT !.pc = "ended"]

\* background_monitor after an exception in a tick: socketio.sleep(5)
AfterError == Waiting("backoff", now + BACKOFF)

\* background_monitor: the wait ends, the event is cleared and the tick raises
\* (check_version compares a time of version.json that is not a number).
\* Ticks raise while the clock has the time of the sleep and of one wait left.
MonitorError ==
    /\ proc["mon"].pc = "idle"
    /\ WaitOver(monitor_event, now, proc["mon"].until)
    /\ count.errors < MaxMonitorErrors
    /\ now + BACKOFF + WAIT <= LastMonitorTime
    /\ count' = [count EXCEPT !.errors = @ + 1]
    /\ monitor_event' = FALSE
    /\ proc' = [proc EXCEPT !["mon"] = AfterError]
    /\ log' = {MonitorFailed}
    /\ resp' = NoResp
    /\ emitted' = {}
    /\ UNCHANGED <<connected_users, sockets, sched, conn, fetches,
                   now, dfs, last_change_times, last_local_update_times, state_file,
                   disk, patching, remote, patches, last_emitted_versions>>

\* background_monitor: the sleep after an exception ends and the loop waits again
MonitorWake ==
    /\ proc["mon"].pc = "backoff"
    /\ now >= proc["mon"].until
    /\ proc' = [proc EXCEPT !["mon"] = Waiting("idle", now + WAIT)]
    /\ log' = {}
    /\ resp' = NoResp
    /\ emitted' = {}
    /\ UNCHANGED <<connected_users, sockets, sched, conn, fetches,
                   now, dfs, last_change_times, last_local_update_times, state_file,
                   disk, patching, remote, patches, monitor_event,
                   last_emitted_versions, count>>

\* SharePoint reads the list for the items request of greenlet p
FetchServe(p) ==
    /\ proc[p].pc = "fetch_sent"
    /\ proc' = [proc EXCEPT ![p] =
                    [@ EXCEPT !.pc = "fetch_served", !.result = "ok",
                              !.items = remote[proc[p].src]]]
    /\ resp' = NoResp
    /\ emitted' = IF p = "mon" THEN emitted ELSE {}
    /\ log' = {}
    /\ UNCHANGED <<connected_users, sockets, sched, conn, fetches,
                   now, dfs, last_change_times, last_local_update_times, state_file,
                   disk, patching, remote, patches, monitor_event,
                   last_emitted_versions, count>>

\* The answer reaches greenlet p: the rest of fetch_data and of its caller, up
\* to the next request to SharePoint.  The answer is the items read ("ok"),
\* a status other than 200 ("http_error": no item was collected) or an
\* exception of requests.get ("exc").
FetchFinish(p, result) ==
    /\ \/ proc[p].pc = "fetch_served" /\ result = "ok"
       \/ proc[p].pc = "fetch_sent" /\ result \in {"http_error", "exc"}
    /\ \E w \in WriteOutcomes :
         LET r == [proc[p] EXCEPT !.result = result]
             o == FetchOutcome(r.src, r.result, r.items, r.started, w)
         IN  /\ dfs' = o.dfs
             /\ last_change_times' = o.lct
             /\ state_file' = o.file
             /\ log' = o.log
             /\ disk' = DiskAfter(o.log)
             /\ IF r.idx # 0
                THEN Continue(p, [r EXCEPT !.updated = Append(@, r.src)],
                              r.idx + 1, o.dfs, o.lct)
                ELSE /\ resp' = DataResponse(r.gsrc, o.ret)
                     /\ proc' = [proc EXCEPT ![p] = IdleProc]
                     /\ emitted' = {}
                     /\ UNCHANGED last_emitted_versions
    /\ UNCHANGED <<connected_users, sockets, sched, conn, fetches,
                   now, last_local_update_times, patching, remote, patches,
                   monitor_event, count>>

----------------------------------------------------------------------------
(* __init__ and fetch_data up to the items request *)

\* the answers to a request to Graph: status 200, another status or an
\* exception of requests.get
GraphAnswers == {"200", "failed"}

\* _authenticate: access_token is assigned if the result holds a token
Authenticate(c, a) == IF a = "ok" THEN [c EXCEPT !.access_token = "token"] ELSE c

\* _get_site_id and _get_list_ids send their request
SendsSiteRequest(c) == c.access_token # "unset"

SendsListRequest(c) == c.access_token # "unset" /\ c.site_id # None

\* _get_site_id once its request is answered
GetSiteId(c, answer) == IF answer = "200" THEN [c EXCEPT !.site_id = "site"] ELSE c

\* _get_list_ids once its request is answered: on 200 the ids are reset and
\* those of the lists found on the site are set
GetListIds(c, answer, found) ==
    IF answer = "200"
    THEN [c EXCEPT !.list_ids = [k \in ListKeys |-> IF k \in found THEN ListId(k)
                                                    ELSE None]]
    ELSE c

\* __init__ from "self._authenticate()" on, one step: nothing else runs while
\* app.py is imported.  With no token in the result, access_token was never
\* assigned and "if self.access_token" raises AttributeError.
Construct(a, site, lists, found) ==
    /\ conn.state = "new"
    /\ LET c1 == Authenticate(conn, a)
           c2 == IF SendsSiteRequest(c1) THEN GetSiteId(c1, site) ELSE c1
           c3 == IF SendsListRequest(c2) THEN GetListIds(c2, lists, found) ELSE c2
       IN  IF c1.access_token = "unset"
           THEN /\ conn' = [c1 EXCEPT !.state = "failed"]
                /\ log' = {[msg |-> "Authentication failed"],
                           [msg |-> "AttributeError: access_token"]}
           ELSE /\ conn' = [c3 EXCEPT !.state = "ready"]
                /\ log' = {}
    /\ resp' = NoResp
    /\ emitted' = {}
    /\ UNCHANGED <<connected_users, sockets, sched, fetches,
                   now, dfs, last_change_times, last_local_update_times, state_file,
                   disk, patching, remote, proc, patches, monitor_event,
                   last_emitted_versions, count>>

\* a fetch_data that sends the items request although the list id is missing
AfterRescan_Proceeds(f, c, source, table) == [f EXCEPT !.pc = "items_sent"]

\* fetch_data after its re-scan: the items request, or "Still missing List
\* ID", the return of the cached table
AfterRescan(f, c, source, table) ==
    IF c.list_ids[source] # None THEN [f EXCEPT !.pc = "items_sent"]
    ELSE [f EXCEPT !.pc = "aborted", !.result = table]

\* fetch_data from "target_list_id = self.list_ids.get(source)" up to its
\* next request, for the connection c: the items request if the id is there;
\* if not, the request of the re-scan, or the rest of the method when
\* _get_list_ids returns at once
CheckList(f, c, source, table) ==
    IF c.list_ids[source] # None THEN [f EXCEPT !.pc = "items_sent"]
    ELSE IF SendsListRequest(c) THEN [f EXCEPT !.pc = "rescan_sent", !.scans = @ + 1]
    ELSE AfterRescan([f EXCEPT !.scans = @ + 1], c, source, table)

\* the lines fetch_data prints on the way to f
FetchLog(f, source) ==
    (IF f.scans > 0 /\ f.pc \in {"rescan_sent", "aborted"}
     THEN {[msg |-> "Missing List ID", source |-> source]} ELSE {})
    \cup (IF f.pc = "aborted" THEN {[msg |-> "Still missing List ID", source |-> source]}
          ELSE {})

\* fetch_data(source) is called: up to its first request
FetchStart(source) ==
    /\ conn.state = "ready"
    /\ fetches[source].pc = "idle"
    /\ LET f == [NoFetch EXCEPT !.started = now]
           g == IF conn.access_token = "unset" \/ conn.site_id = None
                THEN [f EXCEPT !.pc = "auth_sent"]
                ELSE CheckList(f, conn, source, dfs[source])
       IN  /\ fetches' = [fetches EXCEPT ![source] = g]
           /\ log' = FetchLog(g, source)
    /\ resp' = NoResp
    /\ emitted' = {}
    /\ UNCHANGED <<connected_users, sockets, sched, conn,
                   now, dfs, last_change_times, last_local_update_times, state_file,
                   disk, patching, remote, proc, patches, monitor_event,
                   last_emitted_versions, count>>

\* the token request of fetch_data's _authenticate is answered
FetchAuth(source, a) ==
    /\ fetches[source].pc = "auth_sent"
    /\ LET c == Authenticate(conn, a)
           g == IF SendsSiteRequest(c) THEN [fetches[source] EXCEPT !.pc = "site_sent"]
                ELSE CheckList(fetches[source], c, source, dfs[source])
       IN  /\ conn' = c
           /\ fetches' = [fetches EXCEPT ![source] = g]
           /\ log' = FetchLog(g, source)
    /\ resp' = NoResp
    /\ emitted' = {}
    /\ UNCHANGED <<connected_users, sockets, sched,
                   now, dfs, last_change_times, last_local_update_times, state_file,
                   disk, patching, remote, proc, patches, monitor_event,
                   last_emitted_versions, count>>

\* the request of fetch_data's _get_site_id is answered
FetchSite(source, answer) ==
    /\ fetches[source].pc = "site_sent"
    /\ LET c == GetSiteId(conn, answer)
           g == IF SendsListRequest(c) THEN [fetches[source] EXCEPT !.pc = "lists_sent"]
                ELSE CheckList(fetches[source], c, source, dfs[source])
       IN  /\ conn' = c
           /\ fetches' = [fetches EXCEPT ![source] = g]
           /\ log' = FetchLog(g, source)
    /\ resp' = NoResp
    /\ emitted' = {}
    /\ UNCHANGED <<connected_users, sockets, sched,
                   now, dfs, last_change_times, last_local_update_times, state_file,
                   disk, patching, remote, proc, patches, monitor_event,
                   last_emitted_versions, count>>

\* the request of fetch_data's first _get_list_ids is answered
FetchLists(source, answer, found) ==
    /\ fetches[source].pc = "lists_sent"
    /\ LET c == GetListIds(conn, answer, found)
           g == CheckList(fetches[source], c, source, dfs[source])
       IN  /\ conn' = c
           /\ fetches' = [fetches EXCEPT ![source] = g]
           /\ log' = FetchLog(g, source)
    /\ resp' = NoResp
    /\ emitted' = {}
    /\ UNCHANGED <<connected_users, sockets, sched,
                   now, dfs, last_change_times, last_local_update_times, state_file,
                   disk, patching, remote, proc, patches, monitor_event,
                   last_emitted_versions, count>>

\* the request of the re-scan is answered
FetchRescan(source, answer, found) ==
    /\ fetches[source].pc = "rescan_sent"
    /\ LET c == GetListIds(conn, answer, found)
           g == AfterRescan(fetches[source], c, source, dfs[source])
       IN  /\ conn' = c
           /\ fetches' = [fetches EXCEPT ![source] = g]
           /\ log' = FetchLog(g, source) \ {[msg |-> "Missing List ID", source |-> source]}
    /\ resp' = NoResp
    /\ emitted' = {}
    /\ UNCHANGED <<connected_users, sockets, sched,
                   now, dfs, last_change_times, last_local_update_times, state_file,
                   disk, patching, remote, proc, patches, monitor_event,
                   last_emitted_versions, count>>

\* the caller of an aborted fetch_data has its result
FetchAborted(source) ==
    /\ fetches[source].pc = "aborted"
    /\ fetches' = [fetches EXCEPT ![source] = NoFetch]
    /\ log' = {}
    /\ resp' = NoResp
    /\ emitted' = {}
    /\ UNCHANGED <<connected_users, sockets, sched, conn,
                   now, dfs, last_change_times, last_local_update_times, state_file,
                   disk, patching, remote, proc, patches, monitor_event,
                   last_emitted_versions, count>>

\* the items request is answered: the rest of fetch_data
FetchItems(source, result) ==
    /\ fetches[source].pc = "items_sent"
    /\ \E w \in WriteOutcomes :
         LET items == IF result = "ok" THEN remote[source] ELSE <<>>
             o == FetchOutcome(source, result, items, fetches[source].started, w)
         IN  /\ dfs' = o.dfs
             /\ last_change_times' = o.lct
             /\ state_file' = o.file
             /\ log' = o.log
             /\ disk' = DiskAfter(o.log)
    /\ fetches' = [fetches EXCEPT ![source] = NoFetch]
    /\ resp' = NoResp
    /\ emitted' = {}
    /\ UNCHANGED <<connected_users, sockets, sched, conn,
                   now, last_local_update_times, patching, remote, proc, patches,
                   monitor_event, last_emitted_versions, count>>

\* the manager is about to be constructed
InitConn ==
    /\ now = StartTime
    /\ dfs = [s \in Sources |-> EmptyDF]
    /\ state_file \in InitFiles
    /\ last_change_times = ReadState(state_file)
    /\ last_local_update_times = [s \in Sources |-> 0]
    /\ disk = 0
    /\ patching = FALSE
    /\ remote = InitialRemote
    /\ proc = InitProc
    /\ patches = <<>>
    /\ monitor_event = FALSE
    /\ last_emitted_versions = NoneEmitted
    /\ emitted = {}
    /\ resp = NoResp
    /\ log = {}
    /\ count = NoCount
    /\ connected_users = <<>>
    /\ sockets = {}
    /\ conn = Unconnected
    /\ fetches = NoFetches
    /\ sched = NoSched

NextConn ==
    \/ \E a \in {"ok", "failed"}, site \in GraphAnswers, lists \in GraphAnswers,
          found \in SUBSET ListKeys : Construct(a, site, lists, found)
    \/ \E source \in Sources : FetchStart(source)
    \/ \E source \in Sources, a \in {"ok", "failed"} : FetchAuth(source, a)
    \/ \E source \in Sources, answer \in GraphAnswers : FetchSite(source, answer)
    \/ \E source \in Sources, answer \in GraphAnswers, found \in SUBSET ListKeys :
          FetchLists(source, answer, found)
    \/ \E source \in Sources, answer \in GraphAnswers, found \in SUBSET ListKeys :
          FetchRescan(source, answer, found)
    \/ \E source \in Sources : FetchAborted(source)
    \/ \E source \in Sources, result \in {"ok", "http_error", "exc"} :
          FetchItems(source, result)

SpecConn == InitConn /\ [][NextConn]_vars

----------------------------------------------------------------------------
(* _patch_worker *)

HasItem(items, id) == \E i \in 1..Len(items) : items[i].id = id

\* SharePoint applies PATCH .../items/{id}/fields with one field at time t
PatchItem(items, id, field, value, t) ==
    [i \in 1..Len(items) |->
        IF items[i].id = id
        THEN [[items[i] EXCEPT ![field] = value] EXCEPT !.lastModifiedDateTime = t]
        ELSE items[i]]

\* the answers to a PATCH: status 200, another status, an exception of
\* requests.patch
PatchAnswers == {"200", "http_error", "exc"}

\* a loop that ends at the first item
NextItem_Ends(job) == [job EXCEPT !.pc = "done"]

\* the for loop goes to the next item id, or ends
NextItem(job) ==
    IF job.k < Len(job.ids) THEN [job EXCEPT !.pc = "status", !.k = @ + 1]
    ELSE [job EXCEPT !.pc = "done"]

\* a worker that sends the second PATCH whatever the first one answered
AfterStatus_Always(job, answer) ==
    IF job.modifier # NoName THEN [job EXCEPT !.pc = "modifier"]
    ELSE IF job.k < Len(job.ids) THEN [job EXCEPT !.pc = "status", !.k = @ + 1]
    ELSE [job EXCEPT !.pc = "done"]

\* the worker after the answer to the REVISADO PATCH of an item: the
\* ModificadoPor PATCH if the status is 200 and modifier_name is not empty,
\* the next item otherwise
AfterStatus(job, answer) ==
    IF answer = "200" /\ job.modifier # NoName THEN [job EXCEPT !.pc = "modifier"]
    ELSE NextItem(job)

\* the lines _patch_worker prints about an answer, and at its end
PatchLog(job, field, answer, after) ==
    {[msg |-> CASE answer = "200" -> "Updated"
                [] answer = "http_error" -> "Failed to update"
                [] OTHER -> "Exception updating",
      field |-> field, source |-> job.source]}
    \cup (IF after.pc = "done" THEN {[msg |-> "Background patch finished."]} ELSE {})

\* the thread of job w starts: _authenticate is answered (a), then the test
\* of the connection details and, if they are there, the first PATCH is sent
PatchAuth(w, a) ==
    /\ w \in 1..Len(patches)
    /\ patches[w].pc = "auth"
    /\ LET job == patches[w]
           token == IF a = "ok" THEN "token" ELSE conn.access_token
           target_list_id == IF job.source \in ListKeys THEN conn.list_ids[job.source]
                             ELSE None
       IN  /\ conn' = [conn EXCEPT !.access_token = token]
           /\ IF token = "unset" \/ conn.site_id = None \/ target_list_id = None
              THEN /\ patches' = [patches EXCEPT ![w].pc = "missing"]
                   /\ log' = {[msg |-> "Missing connection details",
                               source |-> job.source]}
              ELSE IF Len(job.ids) = 0
              THEN /\ patches' = [patches EXCEPT ![w].pc = "done"]
                   /\ log' = {[msg |-> "Background patch finished."]}
              ELSE /\ patches' = [patches EXCEPT ![w].pc = "status"]
                   /\ log' = {}
    /\ resp' = NoResp
    /\ emitted' = {}
    /\ UNCHANGED <<connected_users, sockets, sched, fetches,
                   now, dfs, last_change_times, last_local_update_times, state_file,
                   disk, patching, remote, proc, monitor_event,
                   last_emitted_versions, count>>

\* the REVISADO PATCH of item k of job w is answered; up to the next PATCH
PatchStatus(w, answer) ==
    /\ w \in 1..Len(patches)
    /\ patches[w].pc = "status"
    /\ LET job == patches[w]
           id == job.ids[job.k]
           after == AfterStatus(job, answer)
       IN  /\ answer = "200" => job.source \in Sources /\ HasItem(remote[job.source], id)
           /\ remote' = IF answer = "200"
                        THEN [remote EXCEPT ![job.source] =
                                 PatchItem(@, id, "REVISADO", job.status, now)]
                        ELSE remote
           /\ patches' = [patches EXCEPT ![w] =
                  [after EXCEPT !.tries =
                      Append(@, [k |-> job.k, field |-> "REVISADO", answer |-> answer])]]
           /\ log' = PatchLog(job, "REVISADO", answer, after)
    /\ resp' = NoResp
    /\ emitted' = {}
    /\ UNCHANGED <<connected_users, sockets, sched, conn, fetches,
                   now, dfs, last_change_times, last_local_update_times, state_file,
                   disk, patching, proc, monitor_event,
                   last_emitted_versions, count>>

\* the ModificadoPor PATCH of item k of job w is answered; up to the next PATCH
PatchModifier(w, answer) ==
    /\ w \in 1..Len(patches)
    /\ patches[w].pc = "modifier"
    /\ LET job == patches[w]
           id == job.ids[job.k]
           after == NextItem(job)
       IN  /\ answer = "200" => job.source \in Sources /\ HasItem(remote[job.source], id)
           /\ remote' = IF answer = "200"
                        THEN [remote EXCEPT ![job.source] =
                                 PatchItem(@, id, "ModificadoPor", job.modifier, now)]
                        ELSE remote
           /\ patches' = [patches EXCEPT ![w] =
                  [after EXCEPT !.tries =
                      Append(@, [k |-> job.k, field |-> "ModificadoPor",
                                 answer |-> answer])]]
           /\ log' = PatchLog(job, "ModificadoPor", answer, after)
    /\ resp' = NoResp
    /\ emitted' = {}
    /\ UNCHANGED <<connected_users, sockets, sched, conn, fetches,
                   now, dfs, last_change_times, last_local_update_times, state_file,
                   disk, patching, proc, monitor_event,
                   last_emitted_versions, count>>

\* a manager whose __init__ found the site and the lists, found no site, or
\* found the site without the list of MTESS
PatchConns ==
    {Connected,
     [Connected EXCEPT !.site_id = None, !.list_ids = [k \in ListKeys |-> None]],
     [Connected EXCEPT !.list_ids["MTESS"] = None]}

\* the edit requests name a dataset of the cache or another one
RequestSources == Sources \cup {"OTHER"}

\* the tables are loaded and the threads of the edits are followed
InitPatch ==
    /\ now = StartTime
    /\ dfs = [s \in Sources |-> NewDF(InitialRemote[s])]
    /\ state_file \in InitFiles
    /\ last_change_times = ReadState(state_file)
    /\ last_local_update_times = [s \in Sources |-> 0]
    /\ disk = 0
    /\ patching = TRUE
    /\ remote = InitialRemote
    /\ proc = InitProc
    /\ patches = <<>>
    /\ monitor_event = FALSE
    /\ last_emitted_versions = NoneEmitted
    /\ emitted = {}
    /\ resp = NoResp
    /\ log = {}
    /\ count = NoCount
    /\ connected_users = <<>>
    /\ sockets = {}
    /\ conn \in PatchConns
    /\ fetches = NoFetches
    /\ sched = NoSched

NextPatch ==
    \/ \E ids \in IdLists, who \in Names, source \in RequestSources :
          UpdateStatus(ids, "REVISADO", who, source)
    \/ \E w \in 1..MaxEdits, a \in {"ok", "failed"} : PatchAuth(w, a)
    \/ \E w \in 1..MaxEdits, answer \in PatchAnswers : PatchStatus(w, answer)
    \/ \E w \in 1..MaxEdits, answer \in PatchAnswers : PatchModifier(w, answer)

SpecPatch == InitPatch /\ [][NextPatch]_vars

----------------------------------------------------------------------------
(* Two edits one after the other: the service just after Ana has set row "1"
   of IPS to REVISADO, with the thread of that edit started, and one edit
   more, each with its own patch thread *)

\* how many patch threads run at once
MaxWorkers == 2

\* the ids of the first edit
FirstIds == <<StrId(<<1>>)>>

\* the manager and the handler after POST /api/update {"ids": ["1"], "status":
\* "REVISADO", "source": "IPS"} of Ana at the start time, over loaded tables
InitRepatch ==
    /\ now = StartTime
    /\ dfs = [s \in Sources |->
                IF s = "IPS"
                THEN SetRows(NewDF(InitialRemote[s]),
                             Mask(NewDF(InitialRemote[s]), FirstIds),
                             "REVISADO", StartTime, "Ana")
                ELSE NewDF(InitialRemote[s])]
    /\ \E f \in InitFiles :
          /\ last_change_times = [ReadState(f) EXCEPT !["IPS"] = StartTime]
          /\ state_file = SaveState(f, last_change_times, "ok")
    /\ last_local_update_times = [s \in Sources |-> IF s = "IPS" THEN StartTime ELSE 0]
    /\ disk = 0
    /\ patching = TRUE
    /\ remote = InitialRemote
    /\ proc = InitProc
    /\ patches = <<PatchJob(FirstIds, "REVISADO", "Ana", "IPS")>>
    /\ monitor_event = TRUE
    /\ last_emitted_versions = NoneEmitted
    /\ emitted = {}
    /\ resp = NoResp
    /\ log = {}
    /\ count = NoCount
    /\ connected_users = <<>>
    /\ sockets = {}
    /\ conn = Connected
    /\ fetches = NoFetches
    /\ sched = NoSched

NextRepatch ==
    \/ \E ids \in IdLists, status \in Statuses, who \in Names, source \in Sources :
          UpdateStatus(ids, status, who, source)
    \/ \E w \in 1..MaxWorkers, a \in {"ok", "failed"} : PatchAuth(w, a)
    \/ \E w \in 1..MaxWorkers, answer \in PatchAnswers : PatchStatus(w, answer)
    \/ \E w \in 1..MaxWorkers, answer \in PatchAnswers : PatchModifier(w, answer)

SpecRepatch == InitRepatch /\ [][NextRepatch]_vars

----------------------------------------------------------------------------
(* Environment *)

Tick ==
    /\ TicksUsed(now) < MaxTicks
    /\ now' = now + TickStep(now)
    /\ resp' = NoResp
    /\ log' = {}
    /\ UNCHANGED <<connected_users, sockets, sched, conn, fetches,
                   dfs, last_change_times, last_local_update_times, state_file, disk,
                   patching, remote, proc, patches, monitor_event,
                   last_emitted_versions, emitted, count>>

\* Another process sharing version.json raises the time of source s in it
ExternalWrite(s) ==
    /\ count.writes < MaxExternalWrites
    /\ count' = [count EXCEPT !.writes = @ + 1]
    /\ now > ReadState(state_file)[s]
    /\ state_file' = [kind |-> "json",
                      text |-> JsonDump(Merge(ReadState(state_file),
                                              [k \in {s} |-> now]))]
    /\ resp' = NoResp
    /\ emitted' = {}
    /\ log' = {}
    /\ UNCHANGED <<connected_users, sockets, sched, conn, fetches,
                   now, dfs, last_change_times, last_local_update_times, disk,
                   patching, remote, proc, patches, monitor_event,
                   last_emitted_versions>>

Next ==
    \/ \E ids \in IdLists, status \in EditStatuses, who \in Names, source \in Sources :
          UpdateStatus(ids, status, who, source)
    \/ \E source \in Sources, refresh \in BOOLEAN : GetData(source, refresh)
    \/ MonitorTick
    \/ \E p \in Procs : FetchServe(p)
    \/ \E p \in Procs, result \in {"ok", "http_error", "exc"} : FetchFinish(p, result)
    \/ Tick
    \/ \E s \in Sources : ExternalWrite(s)

\* Spec: the requests, background_monitor with ticks that do not raise, and the
\* clock over the grace period
Spec == Init /\ [][Next]_vars

\* The same service on a disk where a write of version.json can fail, with
\* the requests of one user for rows that exist and no other process writing
\* the file
NextFaulty ==
    \/ \E source \in Sources : UpdateStatus(<<StrId(<<1>>)>>, "REVISADO", "Ana", source)
    \/ \E source \in Sources, refresh \in BOOLEAN : GetData(source, refresh)
    \/ MonitorTick
    \/ \E p \in Procs : FetchServe(p)
    \/ \E p \in Procs, result \in {"ok", "http_error", "exc"} : FetchFinish(p, result)
    \/ Tick

SpecFaulty == InitWith(MaxWriteFaults, FALSE) /\ [][NextFaulty]_vars

----------------------------------------------------------------------------
(* background_monitor through its waits, over tables that initial_fetch has
   loaded: the edits, the other process and the monitor with ticks that can
   raise, under a clock that runs for 20 s more *)

\* the request bodies tried: a row of both tables, a row of IPS alone
MonitorIdLists == {<<StrId(<<1>>)>>, <<IntId(12)>>}

\* initial_fetch has installed IPS at 1 s and MTESS at 2 s
InitMonitor ==
    /\ now = StartTime
    /\ dfs = [s \in Sources |-> NewDF(InitialRemote[s])]
    /\ state_file \in InitFiles
    /\ last_change_times = ReadState(state_file)
    /\ last_local_update_times = [s \in Sources |-> 0]
    /\ disk = 0
    /\ patching = FALSE
    /\ remote = InitialRemote
    /\ proc = InitProc
    /\ patches = <<>>
    /\ monitor_event = FALSE
    /\ last_emitted_versions = NoneEmitted
    /\ emitted = {}
    /\ resp = NoResp
    /\ log = {}
    /\ count = NoCount
    /\ connected_users = <<>>
    /\ sockets = {}
    /\ conn = Connected
    /\ fetches = NoFetches
    /\ sched = NoSched

\* background_monitor can run: its wait or its sleep is over
MonitorDue ==
    \/ proc["mon"].pc = "idle" /\ WaitOver(monitor_event, now, proc["mon"].until)
    \/ proc["mon"].pc = "backoff" /\ now >= proc["mon"].until

\* The clock of the running service: gevent runs background_monitor as soon as
\* it can run, so the clock does not go on while the monitor is due
Clock ==
    /\ ~MonitorDue
    /\ TicksUsed(now) < MaxMonitorTicks
    /\ now' = now + TickStep(now)
    /\ resp' = NoResp
    /\ log' = {}
    /\ UNCHANGED <<connected_users, sockets, sched, conn, fetches,
                   dfs, last_change_times, last_local_update_times, state_file, disk,
                   patching, remote, proc, patches, monitor_event,
                   last_emitted_versions, emitted, count>>

NextMonitor ==
    \/ \E ids \in MonitorIdLists, source \in Sources :
          UpdateStatus(ids, "REVISADO", "Ana", source)
    \/ MonitorTick
    \/ MonitorError
    \/ MonitorWake
    \/ FetchServe("mon")
    \/ \E result \in {"ok", "http_error", "exc"} : FetchFinish("mon", result)
    \/ Clock
    \/ \E s \in Sources : ExternalWrite(s)

SpecMonitor == InitMonitor /\ [][NextMonitor]_vars

----------------------------------------------------------------------------
(* The service from its start, before any table is loaded: version.json as
   an earlier run left it, with both sources, with IPS alone or with none *)

StartFiles ==
    InitFiles \cup {[kind |-> "json", text |-> JsonDump([IPS |-> 1000])],
                    [kind |-> "json", text |-> EmptyMap]}

InitStart ==
    /\ now = StartTime
    /\ dfs = [s \in Sources |-> EmptyDF]
    /\ state_file \in StartFiles
    /\ last_change_times = ReadState(state_file)
    /\ last_local_update_times = [s \in Sources |-> 0]
    /\ disk = 0
    /\ patching = FALSE
    /\ remote = InitialRemote
    /\ proc = InitProc
    /\ patches = <<>>
    /\ monitor_event = FALSE
    /\ last_emitted_versions = NoneEmitted
    /\ emitted = {}
    /\ resp = NoResp
    /\ log = {}
    /\ count = NoCount
    /\ connected_users = <<>>
    /\ sockets = {}
    /\ conn = Connected
    /\ fetches = NoFetches
    /\ sched = NoSched

SpecStart == InitStart /\ [][NextMonitor]_vars

----------------------------------------------------------------------------
(* background_monitor over a manager whose __init__ may not have found the
   list of MTESS on the site: the refreshes of check_version that end without
   an install *)

\* the manager after an __init__ whose _get_list_ids found every list, or
\* every list but the one of MTESS
StartConns == {Connected, [Connected EXCEPT !.list_ids["MTESS"] = None]}

InitRetry ==
    /\ now = StartTime
    /\ dfs = [s \in Sources |-> NewDF(InitialRemote[s])]
    /\ state_file \in InitFiles
    /\ last_change_times = ReadState(state_file)
    /\ last_local_update_times = [s \in Sources |-> 0]
    /\ disk = 0
    /\ patching = FALSE
    /\ remote = InitialRemote
    /\ proc = InitProc
    /\ patches = <<>>
    /\ monitor_event = FALSE
    /\ last_emitted_versions = NoneEmitted
    /\ emitted = {}
    /\ resp = NoResp
    /\ log = {}
    /\ count = NoCount
    /\ connected_users = <<>>
    /\ sockets = {}
    /\ conn \in StartConns
    /\ fetches = NoFetches
    /\ sched = NoSched

\* the request in flight of greenlet p's fetch_data is the items request
ItemsServe(p) ==
    /\ conn.list_ids[proc[p].src] # None
    /\ FetchServe(p)

ItemsFinish(p, result) ==
    /\ conn.list_ids[proc[p].src] # None
    /\ FetchFinish(p, result)

\* The request in flight of greenlet p's fetch_data is the re-scan after
\* "Missing List ID", and it is answered: with the id found the items request
\* follows; if not, fetch_data prints "Still missing List ID" and returns the
\* cached table, and its caller goes on.
RescanServe(p, answer, found) ==
    /\ proc[p].pc = "fetch_sent"
    /\ conn.list_ids[proc[p].src] = None
    /\ LET r == proc[p]
           c == GetListIds(conn, answer, found)
           g == AfterRescan(NoFetch, c, r.src, dfs[r.src])
       IN  /\ conn' = c
           /\ IF g.pc = "items_sent"
              THEN /\ log' = {}
                   /\ resp' = NoResp
                   /\ emitted' = IF p = "mon" THEN emitted ELSE {}
                   /\ UNCHANGED <<proc, last_emitted_versions>>
              ELSE /\ log' = {[msg |-> "Still missing List ID", source |-> r.src]}
                   /\ IF r.idx # 0
                      THEN Continue(p, [r EXCEPT !.updated = Append(@, r.src)],
                                    r.idx + 1, dfs, last_change_times)
                      ELSE /\ resp' = DataResponse(r.gsrc, g.result)
                           /\ proc' = [proc EXCEPT ![p] = IdleProc]
                           /\ emitted' = {}
                           /\ UNCHANGED last_emitted_versions
    /\ UNCHANGED <<connected_users, sockets, sched, fetches,
                   now, dfs, last_change_times, last_local_update_times, state_file,
                   disk, patching, remote, patches, monitor_event, count>>

NextRetry ==
    \/ \E ids \in MonitorIdLists, source \in Sources :
          UpdateStatus(ids, "REVISADO", "Ana", source)
    \/ MonitorTick
    \/ ItemsServe("mon")
    \/ \E result \in {"ok", "http_error", "exc"} : ItemsFinish("mon", result)
    \/ \E answer \in GraphAnswers, found \in SUBSET ListKeys :
          RescanServe("mon", answer, found)
    \/ Clock
    \/ \E s \in Sources : ExternalWrite(s)

SpecRetry == InitRetry /\ [][NextRetry]_vars

----------------------------------------------------------------------------
(* Two refreshes of a dataset at once: background_monitor and a forced
   refresh of GET /api/data, while the list changes in SharePoint *)

\* Someone else sets REVISADO of the first item of the list of s in SharePoint
RemoteChange(s) ==
    /\ remote[s][1].REVISADO = "PENDIENTE"
    /\ remote' = [remote EXCEPT ![s] =
                     PatchItem(@, remote[s][1].id, "REVISADO", "REVISADO", now)]
    /\ resp' = NoResp
    /\ emitted' = {}
    /\ log' = {}
    /\ UNCHANGED <<connected_users, sockets, sched, conn, fetches,
                   now, dfs, last_change_times, last_local_update_times, state_file,
                   disk, patching, proc, patches, monitor_event,
                   last_emitted_versions, count>>

NextRace ==
    \/ \E source \in Sources : GetData(source, TRUE)
    \/ MonitorTick
    \/ \E p \in {"mon", "req"} : FetchServe(p)
    \/ \E p \in {"mon", "req"}, result \in {"ok", "http_error", "exc"} :
          FetchFinish(p, result)
    \/ \E s \in Sources : RemoteChange(s)
    \/ \E s \in Sources : ExternalWrite(s)
    \/ Tick

SpecRace == InitMonitor /\ [][NextRace]_vars

----------------------------------------------------------------------------
(* fetch_data page by page: a forced refresh of GET /api/data over tables that
   initial_fetch has loaded, with an edit and the clock for the grace test *)

\* the items of one page: 999 in the request of fetch_data, here fewer than
\* the list of IPS holds, so that a refresh takes more than one page
PageSize == 1

\* SharePoint answers the page request of greenlet p with status 200: the
\* next items of the list, and @odata.nextLink while items are left
PageServe(p) ==
    /\ proc[p].pc = "fetch_sent"
    /\ LET list == remote[proc[p].src]
           have == Len(proc[p].items)
           upto == IF have + PageSize < Len(list) THEN have + PageSize ELSE Len(list)
           all_items == proc[p].items \o SubSeq(list, have + 1, upto)
       IN  proc' = [proc EXCEPT ![p] =
                       [@ EXCEPT !.items = all_items,
                                 !.pc = IF upto < Len(list) THEN "fetch_sent"
                                        ELSE "fetch_served",
                                 !.result = IF upto < Len(list) THEN @ ELSE "ok"]]
    /\ resp' = NoResp
    /\ emitted' = {}
    /\ log' = {}
    /\ UNCHANGED <<connected_users, sockets, sched, conn, fetches,
                   now, dfs, last_change_times, last_local_update_times, state_file,
                   disk, patching, remote, patches, monitor_event,
                   last_emitted_versions, count>>

NextPaging ==
    \/ \E source \in Sources : GetData(source, TRUE)
    \/ PageServe("req")
    \/ \E result \in {"ok", "http_error", "exc"} : FetchFinish("req", result)
    \/ \E source \in Sources : UpdateStatus(<<StrId(<<1>>)>>, "REVISADO", "Ana", source)
    \/ Tick

SpecPaging == InitMonitor /\ [][NextPaging]_vars

----------------------------------------------------------------------------
(* GET /api/version over tables that initial_fetch has loaded, with the edits
   and the other process that make check_version refresh *)

NextVersion ==
    \/ GetVersion
    \/ FetchServe("ver")
    \/ \E result \in {"ok", "http_error", "exc"} : FetchFinish("ver", result)
    \/ \E ids \in MonitorIdLists, source \in Sources :
          UpdateStatus(ids, "REVISADO", "Ana", source)
    \/ \E s \in Sources : ExternalWrite(s)
    \/ Tick

SpecVersion == InitMonitor /\ [][NextVersion]_vars

\* The scheduling: gevent runs a greenlet that can run, so background_monitor
\* leaves a wait that is over and a sleep that has ended; SharePoint answers
\* the monitor's request and the answer reaches it; the clock goes on.
Fairness ==
    /\ WF_vars(MonitorTick \/ MonitorError)
    /\ WF_vars(MonitorWake)
    /\ WF_vars(FetchServe("mon"))
    /\ WF_vars(\E result \in {"ok", "http_error", "exc"} : FetchFinish("mon", result))
    /\ WF_vars(Clock)

SpecLive == SpecMonitor /\ Fairness

----------------------------------------------------------------------------
(* version.json on its own: the service is started over files of every kind
   and saves mappings of every shape *)

\* times with no, one, two and three digits after the point
Times == {0, 1, 20, 300, 1000, 1050, 2345, 5000, 9999, 10000, 100500, 1234567}

StateFiles ==
    {[kind |-> "missing", text |-> EmptyMap],
     [kind |-> "corrupt", text |-> EmptyMap],
     [kind |-> "other", text |-> EmptyMap],
     [kind |-> "json", text |-> EmptyMap],
     [kind |-> "json", text |-> JsonDump([version |-> 7000])],
     [kind |-> "json", text |-> JsonDump([version |-> 7000, IPS |-> 100500])],
     [kind |-> "json", text |-> JsonDump([IPS |-> 100500])],
     [kind |-> "json", text |-> JsonDump([MTESS |-> 2345, RPA |-> 20])],
     [kind |-> "json", text |-> JsonDump([IPS |-> 100000, MTESS |-> 50000])]}

InitState ==
    /\ now = StartTime
    /\ dfs = [s \in Sources |-> EmptyDF]
    /\ state_file \in StateFiles
    /\ last_change_times \in [Sources -> Times]
    /\ last_local_update_times = [s \in Sources |-> 0]
    /\ disk = 0
    /\ patching = FALSE
    /\ remote = InitialRemote
    /\ proc = InitProc
    /\ patches = <<>>
    /\ monitor_event = FALSE
    /\ last_emitted_versions = NoneEmitted
    /\ emitted = {}
    /\ resp = NoResp
    /\ log = {}
    /\ count = NoCount
    /\ connected_users = <<>>
    /\ sockets = {}
    /\ conn = Connected
    /\ fetches = NoFetches
    /\ sched = NoSched

\* _save_state(self.last_change_times)
SaveStateCall ==
    /\ state_file' = SaveState(state_file, last_change_times, "ok")
    /\ resp' = [op |-> "_save_state"]
    /\ UNCHANGED <<connected_users, sockets, sched, conn, fetches,
                   now, dfs, last_change_times, last_local_update_times, disk, patching,
                   remote, proc, patches, monitor_event, last_emitted_versions, emitted,
                   log, count>>

\* the service starts again: __init__ reads version.json
Restart ==
    /\ last_change_times' = ReadState(state_file)
    /\ last_local_update_times' = [s \in Sources |-> 0]
    /\ resp' = [op |-> "_read_state"]
    /\ UNCHANGED <<connected_users, sockets, sched, conn, fetches,
                   now, dfs, state_file, disk, patching, remote, proc, patches,
                   monitor_event, last_emitted_versions, emitted, log, count>>

NextState == SaveStateCall \/ Restart

SpecState == InitState /\ [][NextState]_vars

----------------------------------------------------------------------------
(* Presence: the connect and disconnect handlers of Socket.IO *)

Sids == 1..MaxSids

\* The Flask sessions a connection comes with: none logged in, Ana with and
\* without a photo in the session (two devices), Bo
Sessions ==
    {[user |-> FALSE, name |-> "", email |-> "", photo |-> ""],
     [user |-> TRUE, name |-> "Ana", email |-> "ana@mtess", photo |-> "ana.png"],
     [user |-> TRUE, name |-> "Ana", email |-> "ana@mtess", photo |-> ""],
     [user |-> TRUE, name |-> "Bo", email |-> "bo@mtess", photo |-> ""]}

\* user_info of handle_connect
UserInfo(session) ==
    [name |-> session.name, email |-> session.email, photo |-> session.photo]

\* connected_users is a dict, which keeps its keys in the order of insertion:
\* a sequence of entries [sid, user]

\* sid in d
HasSid(d, sid) == \E i \in 1..Len(d) : d[i].sid = sid

\* d[sid] = u
SetItem(d, sid, u) ==
    IF HasSid(d, sid)
    THEN [i \in 1..Len(d) |-> IF d[i].sid = sid THEN [sid |-> sid, user |-> u] ELSE d[i]]
    ELSE Append(d, [sid |-> sid, user |-> u])

\* d[sid]
GetItem(d, sid) == d[CHOOSE i \in 1..Len(d) : d[i].sid = sid].user

\* a pop that leaves the entry in the dict
Without_Keeps(d, sid) == d

RECURSIVE Without(_, _)
\* d without the key sid
Without(d, sid) ==
    IF Len(d) = 0 THEN <<>>
    ELSE IF d[1].sid = sid THEN Without(Tail(d), sid)
    ELSE <<d[1]>> \o Without(Tail(d), sid)

\* the values without the one inserted last
Values_ButLast(d) == [i \in 1..(Len(d) - 1) |-> d[i].user]

\* list(d.values())
Values(d) == [i \in 1..Len(d) |-> d[i].user]

\* a search that compares the whole user_info
SameEmail_WholeInfo(d, u) == \E i \in 1..Len(d) : d[i].user = u

\* the for loops of the two handlers: an entry of d has the email of u
SameEmail(d, u) == \E i \in 1..Len(d) : d[i].user.email = u.email

\* emit(event, data): to the client of the request ("self"), to all clients
\* ("all") or to all but the client of the request ("others")
Emit(event, data, room) == [event |-> event, payload |-> data, room |-> room]

\* handle_connect; an anonymous session is rejected
handle_connect(sid, session) ==
    IF ~session.user
    THEN /\ resp' = [op |-> "connect", accepted |-> FALSE,
                     to |-> [sid |-> sid, session |-> session]]
         /\ emitted' = {}
         /\ UNCHANGED <<connected_users, sockets>>
    ELSE LET user_info == UserInfo(session)
             is_new_person == ~SameEmail(connected_users, user_info)
             users == SetItem(connected_users, sid, user_info)
         IN  /\ connected_users' = users
             /\ sockets' = sockets \cup {sid}
             /\ emitted' =
                    (IF is_new_person THEN {Emit("user_joined", user_info, "others")}
                     ELSE {})
                    \cup {Emit("presence_list", Values(users), "self")}
             /\ resp' = [op |-> "connect", accepted |-> TRUE,
                         to |-> [sid |-> sid, session |-> session]]

\* handle_disconnect
handle_disconnect(sid) ==
    /\ resp' = [op |-> "disconnect", to |-> [sid |-> sid]]
    /\ IF HasSid(connected_users, sid)
       THEN LET user == GetItem(connected_users, sid)
                users == Without(connected_users, sid)
                is_still_here == SameEmail(users, user)
            IN  /\ connected_users' = users
                /\ emitted' =
                       (IF ~is_still_here THEN {Emit("user_left", user, "all")} ELSE {})
                       \cup {Emit("presence_update", Values(users), "all")}
       ELSE /\ emitted' = {}
            /\ UNCHANGED connected_users

\* A client opens a connection, which gets a sid no open connection has
Connect(sid, session) ==
    /\ sid \notin sockets
    /\ handle_connect(sid, session)
    /\ log' = {}
    /\ UNCHANGED <<now, dfs, last_change_times, last_local_update_times, state_file,
                   disk, patching, remote, proc, patches, monitor_event,
                   last_emitted_versions, count, conn, fetches, sched>>

\* An open connection closes
Disconnect(sid) ==
    /\ sid \in sockets
    /\ sockets' = sockets \ {sid}
    /\ handle_disconnect(sid)
    /\ log' = {}
    /\ UNCHANGED <<now, dfs, last_change_times, last_local_update_times, state_file,
                   disk, patching, remote, proc, patches, monitor_event,
                   last_emitted_versions, count, conn, fetches, sched>>

NextPresence ==
    \/ \E sid \in Sids, session \in Sessions : Connect(sid, session)
    \/ \E sid \in Sids : Disconnect(sid)

SpecPresence == Init /\ [][NextPresence]_vars

----------------------------------------------------------------------------
(* The writes of the cache statement by statement.  gevent runs one greenlet
   at a time and changes to another one only where the running one waits *)

\* a writer that also gives up the CPU between its statements
Yields_InWrite(pc) == pc \in {"idle", "waiting", "table_written"}

\* where a writer gives the CPU back to the hub: in requests.get, the only
\* call of fetch_data that waits, and where its work ends
Yields(pc) == pc \in {"idle", "waiting"}

\* greenlet g can run its next statement
CanRun(g) == sched.running = g \/ (sched.running = "hub" /\ Yields(sched.pc[g]))

\* greenlet g of source has run up to pc
Step(g, pc, source) ==
    [running |-> IF Yields(pc) THEN "hub" ELSE g,
     pc |-> [sched.pc EXCEPT ![g] = pc],
     src |-> [sched.src EXCEPT ![g] = source]]

\* the edit tried: row "1", which both tables hold
CriticalIds == <<StrId(<<1>>)>>

\* POST /api/update through update_status_by_ids up to the last assignment
\* to the table
EditTable(source) ==
    /\ CanRun("edit")
    /\ sched.pc["edit"] = "idle"
    /\ count.edits < MaxEdits
    /\ count' = [count EXCEPT !.edits = @ + 1]
    /\ dfs' = [dfs EXCEPT ![source] =
                  SetRows(@, Mask(@, CriticalIds), "REVISADO", now, "Ana")]
    /\ sched' = Step("edit", "table_written", source)
    /\ resp' = NoResp
    /\ log' = {}
    /\ emitted' = {}
    /\ UNCHANGED <<connected_users, sockets, conn, fetches,
                   now, last_change_times, last_local_update_times, state_file,
                   disk, patching, remote, proc, patches, monitor_event,
                   last_emitted_versions>>

\* update_status_by_ids: last_change_times and last_local_update_times
EditTimes ==
    /\ CanRun("edit")
    /\ sched.pc["edit"] = "table_written"
    /\ last_change_times' = [last_change_times EXCEPT ![sched.src["edit"]] = now]
    /\ last_local_update_times' =
          [last_local_update_times EXCEPT ![sched.src["edit"]] = now]
    /\ sched' = Step("edit", "times_written", sched.src["edit"])
    /\ resp' = NoResp
    /\ log' = {}
    /\ emitted' = {}
    /\ UNCHANGED <<connected_users, sockets, conn, fetches,
                   now, dfs, state_file,
                   disk, patching, remote, proc, patches, monitor_event,
                   last_emitted_versions, count>>

\* update_status_by_ids: _save_state, and the rest of update_status
EditSave ==
    /\ CanRun("edit")
    /\ sched.pc["edit"] = "times_written"
    /\ state_file' = SaveState(state_file, last_change_times, "ok")
    /\ monitor_event' = TRUE
    /\ resp' = [op |-> "update", code |-> 200, count |-> Len(CriticalIds),
                last_updated |-> get_formatted_date(dfs[sched.src["edit"]]),
                to |-> [ids |-> CriticalIds, status |-> "REVISADO", who |-> "Ana",
                        source |-> sched.src["edit"]]]
    /\ sched' = Step("edit", "idle", sched.src["edit"])
    /\ log' = {}
    /\ emitted' = {}
    /\ UNCHANGED <<connected_users, sockets, conn, fetches,
                   now, dfs, last_change_times, last_local_update_times,
                   disk, patching, remote, proc, patches,
                   last_emitted_versions, count>>

\* fetch_data(source) up to its items request
RefreshSend(source) ==
    /\ CanRun("refresh")
    /\ sched.pc["refresh"] = "idle"
    /\ sched' = Step("refresh", "waiting", source)
    /\ resp' = NoResp
    /\ log' = {}
    /\ emitted' = {}
    /\ UNCHANGED <<connected_users, sockets, conn, fetches,
                   now, dfs, last_change_times, last_local_update_times, state_file,
                   disk, patching, remote, proc, patches, monitor_event,
                   last_emitted_versions, count>>

\* the items request is answered: fetch_data up to "self.dfs[source] = new_df",
\* or to its return when the request raised or the grace test discards
RefreshTable(result) ==
    /\ CanRun("refresh")
    /\ sched.pc["refresh"] = "waiting"
    /\ LET source == sched.src["refresh"] IN
       IF result = "exc"
       THEN /\ log' = {[msg |-> "Error fetching data"]}
            /\ sched' = Step("refresh", "idle", source)
            /\ dfs' = dfs
       ELSE IF RecentLocalEdit(now, last_local_update_times[source])
       THEN /\ log' = {[msg |-> "Discarding fetch", source |-> source]}
            /\ sched' = Step("refresh", "idle", source)
            /\ dfs' = dfs
       ELSE /\ log' = {}
            /\ sched' = Step("refresh", "table_written", source)
            /\ dfs' = [dfs EXCEPT ![source] = NewDF(remote[source])]
    /\ resp' = NoResp
    /\ emitted' = {}
    /\ UNCHANGED <<connected_users, sockets, conn, fetches,
                   now, last_change_times, last_local_update_times, state_file,
                   disk, patching, remote, proc, patches, monitor_event,
                   last_emitted_versions, count>>

\* fetch_data: last_change_times
RefreshTimes ==
    /\ CanRun("refresh")
    /\ sched.pc["refresh"] = "table_written"
    /\ last_change_times' = [last_change_times EXCEPT ![sched.src["refresh"]] = now]
    /\ sched' = Step("refresh", "times_written", sched.src["refresh"])
    /\ resp' = NoResp
    /\ log' = {}
    /\ emitted' = {}
    /\ UNCHANGED <<connected_users, sockets, conn, fetches,
                   now, dfs, last_local_update_times, state_file,
                   disk, patching, remote, proc, patches, monitor_event,
                   last_emitted_versions, count>>

\* fetch_data: _save_state and the return
RefreshSave ==
    /\ CanRun("refresh")
    /\ sched.pc["refresh"] = "times_written"
    /\ state_file' = SaveState(state_file, last_change_times, "ok")
    /\ sched' = Step("refresh", "idle", sched.src["refresh"])
    /\ resp' = NoResp
    /\ log' = {}
    /\ emitted' = {}
    /\ UNCHANGED <<connected_users, sockets, conn, fetches,
                   now, dfs, last_change_times, last_local_update_times,
                   disk, patching, remote, proc, patches, monitor_event,
                   last_emitted_versions, count>>

\* another greenlet reads the cache entry of source: get_data its table,
\* background_monitor its times
ReadEntry(source) ==
    /\ sched.running = "hub"
    /\ resp' = [op |-> "read", data |-> dfs[source],
                version |-> last_change_times[source],
                to |-> [source |-> source]]
    /\ log' = {}
    /\ emitted' = {}
    /\ UNCHANGED <<connected_users, sockets, conn, fetches, sched,
                   now, dfs, last_change_times, last_local_update_times, state_file,
                   disk, patching, remote, proc, patches, monitor_event,
                   last_emitted_versions, count>>

\* the clock is read between the steps of the greenlets
HubTick == sched.running = "hub" /\ Tick

NextCritical ==
    \/ \E source \in Sources : EditTable(source)
    \/ EditTimes
    \/ EditSave
    \/ \E source \in Sources : RefreshSend(source)
    \/ \E result \in {"ok", "exc"} : RefreshTable(result)
    \/ RefreshTimes
    \/ RefreshSave
    \/ \E source \in Sources : ReadEntry(source)
    \/ HubTick

SpecCritical == InitMonitor /\ [][NextCritical]_vars

----------------------------------------------------------------------------
(* Properties *)

Results == {"ok", "http_error", "exc"}

\* the positions of the rows of a table
Rows(df) == 1..Len(df.rows)

\* the line fetch_data prints when it discards what it fetched for source s
Discarded(s, started) == [msg |-> "Discarding fetch", source |-> s, started |-> started]

\* the last step answered a POST /api/update that matched rows of its source
EditedJustNow ==
    /\ resp.op = "update"
    /\ resp.code = 200
    /\ Mask(dfs[resp.to.source], resp.to.ids) # {}
    /\ last_local_update_times[resp.to.source] = now

(* C1 *)

\* C1: a refresh of source D that started no later than a local edit of D
\* which matched a row, and that reaches its install step less than 5 s after
\* that edit, leaves the table of D as it is: the edited rows keep the values
\* the edit gave them.
C1_NoLostEdit ==
    [][\A p \in Procs, result \in Results :
         ( /\ FetchFinish(p, result)
           /\ proc[p].started <= last_local_update_times[proc[p].src]
           /\ now - last_local_update_times[proc[p].src] < GRACE )
         => dfs'[proc[p].src] = dfs[proc[p].src]]_vars

\* a fetch that started before the edit was discarded, and the edited row is
\* in the table
C1_Witness ==
    \E s \in Sources, l \in log :
        /\ l.msg = "Discarding fetch"
        /\ l = Discarded(s, l.started)
        /\ l.started < last_local_update_times[s]
        /\ \E i \in Rows(dfs[s]) :
              /\ dfs[s].rows[i].Modified = last_local_update_times[s]
              /\ dfs[s].rows[i].REVISADO = "REVISADO"

(* C2 *)

\* C2: when fetch_data has fetched the rows of source D and the last local
\* edit of D is less than 5 s old, it discards them: the table of D, its
\* last-change time and version.json stay as they are, and the table it
\* returns (and GET /api/data answers with) is the cached one.
C2_DiscardKeepsCache ==
    [][\A p \in Procs, result \in {"ok", "http_error"} :
         ( /\ FetchFinish(p, result)
           /\ now - last_local_update_times[proc[p].src] < GRACE )
         => /\ dfs'[proc[p].src] = dfs[proc[p].src]
            /\ last_change_times'[proc[p].src] = last_change_times[proc[p].src]
            /\ state_file' = state_file
            /\ Discarded(proc[p].src, proc[p].started) \in log'
            /\ proc[p].idx = 0 => /\ resp'.op = "data"
                                  /\ resp'.data = dfs[proc[p].src]]_vars

\* GET /api/data was answered with the cached, edited table after a discard
C2_Witness ==
    /\ resp.op = "data"
    /\ \E l \in log : l.msg = "Discarding fetch" /\ l = Discarded(resp.to.source, l.started)
    /\ resp.data = dfs[resp.to.source]
    /\ \E i \in Rows(resp.data) : resp.data.rows[i].Modified > 0

(* C3 *)

\* C3: when fetch_data has fetched the items of source D with success and no
\* local edit of D is less than 5 s old, the table of D becomes the fetched
\* rows, one per item, its last-change time becomes the current time and
\* version.json holds that time under D; and GET /api/data answers with an
\* empty table only out of such a fetch of its own, never out of the cache.
C3_InstallOnRefresh ==
    [][/\ \A p \in Procs :
            ( /\ FetchFinish(p, "ok")
              /\ now - last_local_update_times[proc[p].src] >= GRACE )
            => LET src == proc[p].src
                   items == proc[p].items
                   new == dfs'[src]
               IN  /\ new.columns
                   /\ Len(new.rows) = Len(items)
                   /\ \A i \in 1..Len(items) :
                         /\ new.rows[i].ID = items[i].id
                         /\ new.rows[i].REVISADO = items[i].REVISADO
                         /\ new.rows[i].ModificadoPor = items[i].ModificadoPor
                         /\ new.rows[i].Modified = items[i].lastModifiedDateTime
                   /\ items = remote[src]
                   /\ last_change_times'[src] = now
                   /\ state_file'.kind = "json"
                   /\ NumeralValue(state_file'.text[src]) = now
       /\ (resp'.op = "data" /\ Len(resp'.data.rows) = 0)
            => /\ proc["req"].pc # "idle"
               /\ proc["req"].idx = 0
               /\ proc["req"].src = resp'.to.source]_vars

\* GET /api/data was answered with the rows just fetched and installed
C3_Witness ==
    /\ resp.op = "data"
    /\ [msg |-> "installed", source |-> resp.to.source, started |-> now] \in log
    /\ Len(resp.data.rows) = Len(remote[resp.to.source])
    /\ Len(resp.data.rows) > 0
    /\ dfs[resp.to.source] = resp.data
    /\ last_change_times[resp.to.source] = now
    /\ NumeralValue(state_file.text[resp.to.source]) = now

(* C4 *)

\* the request id x denotes the row id
Denotes(x, id) ==
    \/ x.t = "str" /\ x.v = id
    \/ x.t = "int" /\ Digits(x.v) = id

\* the rows of df that the ids of a request denote
Matched(df, ids) == {i \in Rows(df) : \E k \in 1..Len(ids) : Denotes(ids[k], df.rows[i].ID)}

\* C4: an edit whose row ids match no cached row of the source answers with a
\* count of zero and leaves the table, the last-change and last-local-edit
\* times and version.json as they are.
C4_ZeroMatchZeroCount ==
    [][\A ids \in IdLists, status \in EditStatuses, who \in Names, source \in Sources :
         ( /\ UpdateStatus(ids, status, who, source)
           /\ Len(ids) > 0
           /\ Matched(dfs[source], ids) = {} )
         => /\ resp'.count = 0
            /\ dfs' = dfs
            /\ last_change_times' = last_change_times
            /\ last_local_update_times' = last_local_update_times
            /\ state_file' = state_file]_vars

(* C5 *)

\* the ids of a request, each integer written as its decimal string
AsStrings(ids) == [k \in 1..Len(ids) |-> StrId(PyStr(ids[k]))]

\* C5: a row id given as the integer n and given as the string of n select the
\* same rows of a table and make the same edit of it.
C5_IdTypeEquivalence ==
    /\ \A s \in Sources, n \in 0..MaxIdValue, status \in EditStatuses, who \in Names :
          /\ Mask(dfs[s], <<IntId(n)>>) = {i \in Rows(dfs[s]) : dfs[s].rows[i].ID = Digits(n)}
          /\ Mask(dfs[s], <<IntId(n)>>) = Mask(dfs[s], <<StrId(Digits(n))>>)
          /\ EditOutcome(<<IntId(n)>>, status, who, s, "ok")
                = EditOutcome(<<StrId(Digits(n))>>, status, who, s, "ok")
    /\ \A s \in Sources, ids \in IdLists, status \in EditStatuses, who \in Names :
          EditOutcome(ids, status, who, s, "ok")
             = EditOutcome(AsStrings(ids), status, who, s, "ok")

\* a request that named a row by an integer has edited that row
C5_Witness ==
    /\ EditedJustNow
    /\ \E k \in 1..Len(resp.to.ids), i \in Rows(dfs[resp.to.source]) :
          /\ resp.to.ids[k].t = "int"
          /\ dfs[resp.to.source].rows[i].ID = Digits(resp.to.ids[k].v)
          /\ dfs[resp.to.source].rows[i].Modified = now
          /\ dfs[resp.to.source].rows[i].REVISADO = resp.to.status

(* C6 *)

\* what an edit leaves in the table: the matched rows get the value and the
\* current time, the other rows and the number of rows stay
EditsRows(old, new, ids, status) ==
    /\ new.columns = old.columns
    /\ Len(new.rows) = Len(old.rows)
    /\ \A i \in Rows(old) :
          IF i \in Matched(old, ids)
          THEN /\ new.rows[i].ID = old.rows[i].ID
               /\ new.rows[i].REVISADO = status
               /\ new.rows[i].Modified = now
          ELSE new.rows[i] = old.rows[i]

\* C6 as stated: an edit that matches rows sets, for every matched row, the
\* review value, the modified time (the current time) and the attribution to
\* who; the other rows and the number of rows stay.
C6_EditAttributesWho ==
    [][\A ids \in IdLists, status \in EditStatuses, who \in Names, source \in Sources :
         ( /\ UpdateStatus(ids, status, who, source)
           /\ Matched(dfs[source], ids) # {} )
         => /\ EditsRows(dfs[source], dfs'[source], ids, status)
            /\ \A i \in Matched(dfs[source], ids) :
                  dfs'[source].rows[i].ModificadoPor = who]_vars

\* C6: an edit that matches rows sets, for every matched row, the review value
\* and the modified time (the current time) and, when who is a name, the
\* attribution to who; without a name (absent or empty) the attribution of
\* the row stays.  The other rows and the number of rows stay.
C6_EditSetsRows ==
    [][\A ids \in IdLists, status \in EditStatuses, who \in Names, source \in Sources :
         ( /\ UpdateStatus(ids, status, who, source)
           /\ Matched(dfs[source], ids) # {} )
         => /\ EditsRows(dfs[source], dfs'[source], ids, status)
            /\ \A i \in Matched(dfs[source], ids) :
                  dfs'[source].rows[i].ModificadoPor =
                     IF who # NoName THEN who ELSE dfs[source].rows[i].ModificadoPor]_vars

\* an edit by a named user has matched one row of a table of two
C6_Witness ==
    /\ EditedJustNow
    /\ resp.to.who # NoName
    /\ \E i, j \in Rows(dfs[resp.to.source]) :
          /\ dfs[resp.to.source].rows[i].Modified = now
          /\ dfs[resp.to.source].rows[i].ModificadoPor = resp.to.who
          /\ dfs[resp.to.source].rows[j].Modified # now
          /\ dfs[resp.to.source].rows[j].ModificadoPor # resp.to.who

(* C7 *)

\* C7: after an edit of source D that matched rows, and with a disk that
\* takes the write, the last-change time and the last-local-edit time of D
\* are both the time of the edit, and version.json holds that time under D.
C7_EditStampsTimes ==
    [][\A ids \in IdLists, status \in EditStatuses, who \in Names, source \in Sources :
         ( /\ UpdateStatus(ids, status, who, source)
           /\ Matched(dfs[source], ids) # {} )
         => /\ last_change_times'[source] = now
            /\ last_local_update_times'[source] = now
            /\ state_file'.kind = "json"
            /\ NumeralValue(state_file'.text[source]) = last_change_times'[source]]_vars

\* an edit, later than the start, has stamped its time in memory and on disk
C7_Witness ==
    /\ EditedJustNow
    /\ now > StartTime
    /\ last_change_times[resp.to.source] = now
    /\ state_file.kind = "json"
    /\ NumeralValue(state_file.text[resp.to.source]) = now

(* C8 *)

\* C8: the time version.json holds for a source never decreases, whoever
\* writes the file.
C8_DurableTimeMonotonic ==
    [][\A s \in Sources : ReadState(state_file')[s] >= ReadState(state_file)[s]]_vars

(* C9 *)

\* C9: an edit or a refresh of source D leaves the entry of every other source
\* in version.json as it is, also when another process has changed that entry
\* since the service last read the file.
C9_OtherEntriesKept ==
    [][/\ \A ids \in IdLists, status \in EditStatuses, who \in Names, source \in Sources :
            UpdateStatus(ids, status, who, source)
            => \A d \in Sources \ {source} :
                  ReadState(state_file')[d] = ReadState(state_file)[d]
       /\ \A p \in Procs, result \in Results :
            FetchFinish(p, result)
            => \A d \in Sources \ {proc[p].src} :
                  ReadState(state_file')[d] = ReadState(state_file)[d]]_vars

(* C10 *)

\* C10: a write of version.json that fails or is interrupted leaves the
\* content committed before it in the file.
C10_FailedWriteKeepsFile ==
    [][(SaveFailed \in log') => (state_file' = state_file)]_vars

(* C11 *)

\* C11: saving a mapping from IPS and MTESS to times with _save_state and
\* loading the file with _read_state gives the same mapping back.
C11_StateRoundTrip ==
    [][(SaveStateCall /\ DOMAIN last_change_times = Sources)
         => /\ ReadState(state_file') = last_change_times
            /\ \A t \in Times : NumeralValue(Numeral(t)) = t]_vars

\* a mapping whose times have digits after the point was saved and reads back
C11_Witness ==
    /\ resp.op = "_save_state"
    /\ DOMAIN last_change_times = Sources
    /\ last_change_times["IPS"] % 10 # 0
    /\ last_change_times["MTESS"] % 1000 # 0
    /\ last_change_times["MTESS"] % 100 = 0
    /\ ReadState(state_file) = last_change_times

(* C12 *)

\* C12: loading version.json never fails.  A missing file, a file that is not
\* valid JSON and a file with a top-level "version" key give {IPS: 0, MTESS: 0};
\* a valid file without the key of a source gives 0 for that source and
\* keeps the keys it has.
C12_ReadDefaults ==
    [][Restart
         => LET f == state_file
                got == last_change_times'
            IN  IF f.kind # "json" \/ "version" \in DOMAIN f.text
                THEN got = [s \in Sources |-> 0]
                ELSE /\ DOMAIN got = Sources \cup DOMAIN f.text
                     /\ \A k \in DOMAIN f.text : Numeral(got[k]) = f.text[k]
                     /\ \A k \in Sources \ DOMAIN f.text : got[k] = 0]_vars

\* the service has started over a file that holds MTESS and not IPS
C12_Witness ==
    /\ resp.op = "_read_state"
    /\ state_file.kind = "json"
    /\ "IPS" \notin DOMAIN state_file.text
    /\ "MTESS" \in DOMAIN state_file.text
    /\ last_change_times["IPS"] = 0
    /\ last_change_times["MTESS"] = 2345

(* C13 *)

\* the positions of SourceOrder that check_version decides in a step of
\* background_monitor which takes its loop up at position i: up to the source
\* it fetches, or to the end
Decided(i) ==
    LET r == proc'["mon"] IN
    i..(IF r.pc = "fetch_sent" THEN r.idx ELSE Len(SourceOrder))

\* that step ends in the request of fetch_data for the source at position k
CallsFetch(k) == proc'["mon"].pc = "fetch_sent" /\ proc'["mon"].idx = k

\* C13, as stated: in every tick of background_monitor and for every source
\* D, the tick calls fetch_data(D) if the time of D it read from version.json
\* exceeds last_change_times[D] by more than 0.1 s, and does not call it
\* otherwise.
C13_RefreshIffNewer ==
    [][/\ MonitorTick
            => \A k \in Decided(1) :
                  CallsFetch(k) <=>
                    (ReadState(state_file)[SourceOrder[k]]
                        > last_change_times[SourceOrder[k]] + EPS)
       /\ \A result \in Results :
            FetchFinish("mon", result)
            => \A k \in Decided(proc["mon"].idx + 1) :
                  CallsFetch(k) <=>
                    (proc["mon"].fv[SourceOrder[k]]
                        > last_change_times'[SourceOrder[k]] + EPS)]_vars

\* C13, amended: the tick calls fetch_data(D) exactly when the time of D it
\* read from version.json exceeds last_change_times[D] by more than 0.1 s and
\* the last local edit of D is 5 s old or older.
C13_RefreshOutsideGrace ==
    [][/\ MonitorTick
            => \A k \in Decided(1) :
                  CallsFetch(k) <=>
                    ( /\ ReadState(state_file)[SourceOrder[k]]
                            > last_change_times[SourceOrder[k]] + EPS
                      /\ now - last_local_update_times[SourceOrder[k]] >= GRACE )
       /\ \A result \in Results :
            FetchFinish("mon", result)
            => \A k \in Decided(proc["mon"].idx + 1) :
                  CallsFetch(k) <=>
                    ( /\ proc["mon"].fv[SourceOrder[k]]
                            > last_change_times'[SourceOrder[k]] + EPS
                      /\ now - last_local_update_times[SourceOrder[k]] >= GRACE )]_vars

\* a tick has just asked SharePoint for the second source, whose time in the
\* file it read is newer than the one in memory, having passed over the first
C13_Witness ==
    LET r == proc["mon"] IN
    /\ r.pc = "fetch_sent"
    /\ r.started = now
    /\ r.idx = 2
    /\ r.fv[r.src] > last_change_times[r.src] + EPS
    /\ r.fv[SourceOrder[1]] <= last_change_times[SourceOrder[1]] + EPS

(* C14 *)

\* a step of background_monitor that ends a tick: check_version has returned and
\* the emit loop has run
TickEnds ==
    /\ MonitorTick \/ \E result \in Results : FetchFinish("mon", result)
    /\ proc'["mon"].pc = "idle"

\* C14: at the end of every tick and for every source D, a server_update for D
\* is emitted exactly when last_change_times[D] exceeds the version last
\* broadcast for D by more than 0.001 s; the event carries D, that time as
\* version and the display string of D's table, and the version recorded as
\* last broadcast for D is then that time (and stays as it was when no event
\* is emitted).
C14_EmitIffNewer ==
    [][TickEnds
         => \A D \in Sources :
              LET t == last_change_times'[D]
                  newer == t > last_emitted_versions[D] + EMIT_EPS
              IN  /\ (\E e \in emitted' : e.source = D) <=> newer
                  /\ \A e \in emitted' :
                        e.source = D
                        => e = [source |-> D, version |-> t,
                                last_updated |-> get_formatted_date(dfs'[D])]
                  /\ last_emitted_versions'[D] =
                        IF newer THEN t ELSE last_emitted_versions[D]]_vars

\* a tick has ended with an event for a source edited since the last broadcast
\* and none for the other source, broadcast before
C14_Witness ==
    /\ proc["mon"].pc = "idle"
    /\ \E D \in Sources :
          /\ last_local_update_times[D] > 0
          /\ last_emitted_versions[D] = last_local_update_times[D]
          /\ \E e \in emitted : e.source = D /\ e.version = last_local_update_times[D]
          /\ \A d \in Sources \ {D} :
                /\ last_emitted_versions[d] = last_change_times[d]
                /\ \A e \in emitted : e.source # d

(* C15 *)

\* The events of the tick before are still in emitted when a tick ends only if
\* nothing but background_monitor and the clock has run since: no request, no
\* write of the other process, no tick that raised.

C16_LoopGoesOn ==
    /\ [][MonitorError
            => /\ MonitorFailed \in log'
               /\ proc'["mon"].pc = "backoff"
               /\ proc'["mon"].until = now + BACKOFF]_vars
    /\ [][proc["mon"].pc = "backoff"
            => \/ proc'["mon"] = proc["mon"]
               \/ /\ now >= proc["mon"].until
                  /\ proc'["mon"].pc = "idle"]_vars
    /\ [](proc["mon"].pc = "backoff" => <>proc["mon"].ticked)

\* a tick has raised and, since then, a tick has ended with events
C16_Witness ==
    /\ count.errors > 0
    /\ proc["mon"].pc = "idle"
    /\ proc["mon"].ticked
    /\ emitted # {}

(* C17 *)

\* C17: background_monitor starts a tick only when monitor_event is set or
\* 10 s have passed since its wait began, and the tick clears the event; while
\* it waits with the event set or the 10 s over, the clock does not go on
\* before the tick starts, and the tick does start.  Every POST /api/update
\* that carries ids sets the event.  An event set while a tick is in progress
\* stays set until a tick starts, and a further tick does start and clear it.
C17_WakeOrTimeout ==
    /\ [][(MonitorTick \/ MonitorError)
            => /\ monitor_event \/ now - (proc["mon"].until - WAIT) >= WAIT
               /\ ~monitor_event']_vars
    /\ [][( /\ proc["mon"].pc = "idle"
            /\ monitor_event \/ now - (proc["mon"].until - WAIT) >= WAIT )
            => now' = now]_vars
    /\ [][\A ids \in MonitorIdLists, source \in Sources :
            UpdateStatus(ids, "REVISADO", "Ana", source) => monitor_event']_vars
    /\ [][(monitor_event /\ ~monitor_event') => (MonitorTick \/ MonitorError)]_vars
    /\ []((proc["mon"].pc = "idle" /\ now >= proc["mon"].until)
            => <>(proc["mon"].pc # "idle" \/ now < proc["mon"].until))
    /\ []((monitor_event /\ proc["mon"].pc # "backoff") => <>~monitor_event)

\* a POST /api/update has just set the event while a tick, which had cleared
\* it, waits for SharePoint
C17_Witness ==
    /\ monitor_event
    /\ resp.op = "update"
    /\ proc["mon"].pc = "fetch_sent"

(* C18 *)

\* C18: after a POST /api/update that matched a row of source D, a
\* server_update for D whose version is at least the time the edit gave
\* last_change_times[D] is eventually emitted.
C18_EditAnnounced ==
    \A D \in Sources :
        []((EditedJustNow /\ resp.to.source = D)
            => <>(\E e \in emitted :
                     e.source = D /\ e.version >= last_local_update_times[D]))

(* C19 *)

\* version.json holds for source D a time more than 0.1 s above the one in
\* memory: only a write by another process brings this about
RaisedOutside(D) == ReadState(state_file)[D] > last_change_times[D] + EPS

\* the last step installed a fetch of D
Installed(D) == \E l \in log : l.msg = "installed" /\ l.source = D

\* the last step ended a fetch that raised
FetchFailed == [msg |-> "Error fetching data"] \in log

\* C19: when another process has raised the time of D in version.json more
\* than 0.1 s above last_change_times[D], with the time of two waits left on
\* the clock, then, unless a fetch fails, the table of D is eventually
\* installed from SharePoint and a server_update for D is emitted afterwards,
\* whatever POST /api/update requests come in between.
C19_ExternalChangePickedUp ==
    \A D \in Sources :
        []((RaisedOutside(D) /\ now + 2 * WAIT <= LastMonitorTime)
            => <>(\/ FetchFailed
                  \/ Installed(D) /\ <>(\E e \in emitted : e.source = D)))

(* C20 *)

\* the user_joined events of a set of events
Joined(events) == {e \in events : e.event = "user_joined"}

\* C20: the handler of a connection that is accepted emits user_joined, to
\* the other clients and with the user of the connection, exactly when no
\* other open connection has the same email; and connected_users holds one
\* entry for each open connection and no other.
C20_JoinDedup ==
    /\ [][\A sid \in Sids, session \in Sessions :
            (Connect(sid, session) /\ session.user)
            => /\ Joined(emitted') # {}
                    <=> ~\E i \in 1..Len(connected_users) :
                           /\ connected_users[i].sid \in sockets \ {sid}
                           /\ connected_users[i].user.email = session.email
               /\ Joined(emitted')
                    \subseteq {Emit("user_joined", UserInfo(session), "others")}]_vars
    /\ [](/\ {connected_users[i].sid : i \in 1..Len(connected_users)} = sockets
          /\ Len(connected_users) = Cardinality(sockets))

\* the second of two open connections with one email has just been accepted
\* without a user_joined, and connected_users holds both
C20_Witness ==
    /\ resp.op = "connect"
    /\ resp.accepted
    /\ Joined(emitted) = {}
    /\ Cardinality(sockets) = 2
    /\ Len(connected_users) = 2
    /\ connected_users[1].user.email = connected_users[2].user.email
    /\ connected_users[1].user # connected_users[2].user

(* C21 *)

\* the users of the entries of d whose connection is in the set open, in the
\* order of d
UsersOf(d, open) ==
    LET IsOpen(x) == x.sid \in open IN
    [i \in 1..Len(SelectSeq(d, IsOpen)) |-> SelectSeq(d, IsOpen)[i].user]

\* C21: when a connection that has an entry in connected_users closes,
\* user_left is emitted, to all and with the user of the entry, exactly when no
\* connection that stays open has the same email; and presence_update is
\* emitted to all with the users of the connections that stay open, one
\* entry each.
C21_LeaveDedup ==
    [][\A sid \in Sids :
         (Disconnect(sid) /\ HasSid(connected_users, sid))
         => LET user == GetItem(connected_users, sid)
                left == {e \in emitted' : e.event = "user_left"}
                rest == sockets \ {sid}
            IN  /\ left # {}
                     <=> ~\E i \in 1..Len(connected_users) :
                            /\ connected_users[i].sid \in rest
                            /\ connected_users[i].user.email = user.email
                /\ left \subseteq {Emit("user_left", user, "all")}
                /\ Emit("presence_update", UsersOf(connected_users, rest), "all")
                      \in emitted'
                /\ Len(UsersOf(connected_users, rest)) = Cardinality(rest)
                /\ \A e \in emitted' : e.event \in {"user_left", "presence_update"}]_vars

\* one of two open connections with one email has just closed: no user_left,
\* and a presence_update with the one that stays
C21_Witness ==
    /\ resp.op = "disconnect"
    /\ Cardinality(sockets) = 1
    /\ \A e \in emitted : e.event # "user_left"
    /\ \E e \in emitted :
          /\ e.event = "presence_update"
          /\ Len(e.payload) = 1
          /\ e.payload[1].email = "ana@mtess"

(* C22 *)

\* C22: the handler of a connection with a logged-in session emits
\* presence_list to that connection with the users of all open connections,
\* its own included, one entry each; a connection without a logged-in session
\* is rejected, emits nothing and leaves connected_users as it is.
C22_PresenceListOnConnect ==
    [][\A sid \in Sids, session \in Sessions :
         Connect(sid, session)
         => IF session.user
            THEN /\ resp'.accepted
                 /\ sockets' = sockets \cup {sid}
                 /\ Emit("presence_list", UsersOf(connected_users', sockets'), "self")
                       \in emitted'
                 /\ Len(UsersOf(connected_users', sockets')) = Cardinality(sockets')
                 /\ \E i \in 1..Len(connected_users') :
                       connected_users'[i] = [sid |-> sid, user |-> UserInfo(session)]
            ELSE /\ ~resp'.accepted
                 /\ emitted' = {}
                 /\ connected_users' = connected_users
                 /\ sockets' = sockets]_vars

\* the third connection has just been accepted and got a list of three
C22_Witness ==
    /\ resp.op = "connect"
    /\ resp.accepted
    /\ Cardinality(sockets) = 3
    /\ \E e \in emitted :
          /\ e.event = "presence_list"
          /\ e.room = "self"
          /\ Len(e.payload) = 3
          /\ e.payload[3] = UserInfo(resp.to.session)

(* C28 *)

\* C28: the edit request answers with a failure and a message exactly when the
\* local mutation could not be applied: an edit that raised while it updated
\* the table is answered with a failure, an edit that changed the table with
\* success.
C28_FailureIffNotApplied ==
    [][\A ids \in IdLists, status \in EditStatuses, who \in Names, source \in Sources :
         (UpdateStatus(ids, status, who, source) /\ Len(ids) > 0)
         => /\ [msg |-> "Error updating local DF"] \in log' => resp'.code # 200
            /\ dfs' # dfs => resp'.code = 200]_vars

(* C29 *)

\* C29: the answer of GET /api/version is a mapping from each dataset to the
\* last-change time of that dataset.
C29_VersionIsMapping ==
    resp.op = "version"
    => /\ resp.body.kind = "object"
       /\ LET v == resp.body.members.version IN
          /\ v.kind = "object"
          /\ v.members = last_change_times

(* C23 *)

\* the REVISADO requests among the answered requests of a patch thread
StatusTries(job) ==
    LET IsStatus(t) == t.field = "REVISADO" IN SelectSeq(job.tries, IsStatus)

\* the items of a list that the ids of a patch thread name, at position k
Patched(items, job, k) == {i \in 1..Len(items) : items[i].id = job.ids[k]}

\* C23: for each row id of a dispatch the status update is the first request;
\* the attribution update is sent only after the status update of that row
\* was answered 200; an attribution update that fails is not sent again and
\* leaves the status that was set.
C23_StatusThenAttribution ==
    [][\A w \in 1..MaxEdits, answer \in PatchAnswers :
         /\ PatchStatus(w, answer)
            => \A i \in 1..Len(patches[w].tries) : patches[w].tries[i].k # patches[w].k
         /\ PatchModifier(w, answer)
            => LET job == patches[w]
                   n == Len(job.tries)
               IN  /\ n > 0
                   /\ job.tries[n] = [k |-> job.k, field |-> "REVISADO", answer |-> "200"]
                   /\ \A i \in 1..(n - 1) : job.tries[i].k # job.k
                   /\ answer # "200" => remote' = remote
                   /\ \A i \in Patched(remote'[job.source], job, job.k) :
                         remote'[job.source][i].REVISADO = job.status
                   /\ patches'[w].pc \in {"status", "done"}
                   /\ patches'[w].pc = "status" => patches'[w].k = job.k + 1]_vars

\* a thread has ended whose attribution update of a row failed after the
\* status update of that row succeeded: the list holds the status
C23_Witness ==
    \E w \in 1..Len(patches) :
       LET job == patches[w] IN
       /\ job.pc = "done"
       /\ \E n \in 2..Len(job.tries) :
             /\ job.tries[n].field = "ModificadoPor"
             /\ job.tries[n].answer # "200"
             /\ job.tries[n - 1] = [k |-> job.tries[n].k, field |-> "REVISADO",
                                    answer |-> "200"]
             /\ \A i \in Patched(remote[job.source], job, job.tries[n].k) :
                   /\ remote[job.source][i].REVISADO = job.status
                   /\ remote[job.source][i].ModificadoPor # job.modifier

(* C24 *)

\* C24: the rows of a dispatch are patched one by one and none twice: the
\* status updates answered so far are those of the first rows in order, one
\* each, whatever their answers, and a thread that has ended its loop has
\* sent the status update of every row.
C24_OneAttemptPerRow ==
    \A w \in 1..Len(patches) :
       LET job == patches[w]
           st == StatusTries(job)
       IN  /\ \A i \in 1..Len(st) : st[i].k = i
           /\ job.pc = "status" => Len(st) = job.k - 1
           /\ job.pc = "modifier" => Len(st) = job.k
           /\ job.pc = "done" => Len(st) = Len(job.ids)

\* a thread has ended whose first status update raised and whose second
\* status update was answered
C24_Witness ==
    \E w \in 1..Len(patches) :
       LET job == patches[w] IN
       /\ job.pc = "done"
       /\ Len(job.ids) = 2
       /\ job.tries[1] = [k |-> 1, field |-> "REVISADO", answer |-> "exc"]
       /\ \E n \in 2..Len(job.tries) :
             job.tries[n].k = 2 /\ job.tries[n].field = "REVISADO"

(* C25 *)

\* what an edit sets in the manager
EditState == <<dfs, last_change_times, last_local_update_times, state_file>>

\* the step is the edit request for the rows ids of source, and it starts the
\* patch thread without a request to SharePoint sent or a list changed
Dispatches(ids, who, source) ==
    /\ UpdateStatus(ids, "REVISADO", who, source)
    /\ Len(ids) > 0
    /\ patches' = Append(patches, PatchJob(ids, "REVISADO", who, source))
    /\ patches'[Len(patches')].pc = "auth"
    /\ patches'[Len(patches')].tries = <<>>
    /\ remote' = remote

\* the step is a step of a patch thread, and it leaves what the edits set and
\* answers no request
WorkerStepKeepsEdit(w) ==
    /\ \/ \E a \in {"ok", "failed"} : PatchAuth(w, a)
       \/ \E answer \in PatchAnswers : PatchStatus(w, answer)
       \/ \E answer \in PatchAnswers : PatchModifier(w, answer)
    /\ EditState' = EditState
    /\ resp' = NoResp

IsWorkerStep ==
    \E w \in 1..MaxEdits :
       \/ \E a \in {"ok", "failed"} : PatchAuth(w, a)
       \/ \E answer \in PatchAnswers : PatchStatus(w, answer)
       \/ \E answer \in PatchAnswers : PatchModifier(w, answer)

Enters(s, pc) == fetches[s].pc # pc /\ fetches'[s].pc = pc

\* C26: a refresh that finds the list id of its dataset missing re-scans the
\* list ids once; if the id is still missing it sends no items request,
\* leaves the table, the last-change time and version.json as they are and
\* returns the cached table.
C26_RescanOnceThenAbort ==
    [][\A s \in Sources :
         /\ fetches'[s].scans <= 1
         /\ Enters(s, "rescan_sent")
            => /\ conn'.list_ids[s] = None
               /\ fetches'[s].scans = 1
         /\ fetches[s].pc = "rescan_sent" /\ fetches'[s] # fetches[s]
            => fetches'[s].pc = (IF conn'.list_ids[s] = None THEN "aborted"
                                 ELSE "items_sent")
         /\ Enters(s, "items_sent") => conn'.list_ids[s] # None
         /\ Enters(s, "aborted")
            => /\ conn'.list_ids[s] = None
               /\ fetches'[s].scans = 1
               /\ fetches'[s].result = dfs[s]
               /\ <<dfs, last_change_times, state_file>>'
                     = <<dfs, last_change_times, state_file>>
         /\ FetchAborted(s)
            => <<dfs, last_change_times, state_file>>'
                  = <<dfs, last_change_times, state_file>>]_vars

\* a refresh of a dataset whose table is loaded was aborted after its re-scan
\* was answered, and returns the table
C26_Witness ==
    \E s \in Sources :
       /\ fetches[s].pc = "aborted"
       /\ fetches[s].scans = 1
       /\ conn.site_id # None
       /\ conn.list_ids[s] = None
       /\ Len(dfs[s].rows) > 0
       /\ fetches[s].result = dfs[s]

(* C27 *)

\* C27: a token acquisition that fails raises nothing: the construction of
\* the manager completes, a fetch whose authentication fails goes on to its
\* list id and ends with the cached table or the items request, and a fetch
\* of a manager without token or site authenticates again.
C27_AuthFailureNotFatal ==
    [][/\ \A a \in {"ok", "failed"}, site \in GraphAnswers, lists \in GraphAnswers,
            found \in SUBSET ListKeys :
             Construct(a, site, lists, found) => conn'.state = "ready"
       /\ \A s \in Sources :
             /\ FetchAuth(s, "failed") => fetches'[s].pc # "idle"
             /\ (FetchStart(s) /\ (conn.access_token = "unset" \/ conn.site_id = None))
                => fetches'[s].pc = "auth_sent"]_vars

(* C30 *)

\* writer g has assigned to the table of s and not yet to its times
InWrite(g, s) == sched.src[g] = s /\ sched.pc[g] = "table_written"

\* no row of the table of s is newer than the last-change time of s
TimesCoverTable(s) ==
    \A i \in 1..Len(dfs[s].rows) : dfs[s].rows[i].Modified <= last_change_times[s]

\* C30: for every dataset at most one writer (edit or refresh) is between its
\* write of the table and its write of the times, and whoever reads the entry
\* finds no writer there and no row newer than the last-change time, however
\* the greenlets interleave.
C30_CriticalSection ==
    /\ [](\A s \in Sources : Cardinality({g \in Writers : InWrite(g, s)}) <= 1)
    /\ [][\A s \in Sources :
            ReadEntry(s) => /\ \A g \in Writers : ~InWrite(g, s)
                            /\ TimesCoverTable(s)]_vars

\* an edit has written the table of a dataset but not its times while a
\* refresh of the same dataset waits for its answer
C30_Witness ==
    \E s \in Sources :
       /\ InWrite("edit", s)
       /\ sched.pc["refresh"] = "waiting"
       /\ sched.src["refresh"] = s
       /\ ~TimesCoverTable(s)

(* C35 *)

\* the step ends with greenlet p in the items request of a fetch_data that
\* check_version called
SyncsNow(p) ==
    /\ proc'[p] # proc[p]
    /\ proc'[p].pc = "fetch_sent"
    /\ proc'[p].idx # 0

\* C35: check_version starts no refresh of a dataset whose last local edit is
\* less than 5 s old, whatever time version.json holds for it.
C35_NoRefreshInGrace ==
    [][\A p \in Procs :
         SyncsNow(p) => now - last_local_update_times[proc'[p].src] >= GRACE]_vars

\* a tick has just ended without a fetch although version.json holds for a
\* dataset edited less than 5 s ago a time more than 0.1 s above the memory's
C35_Witness ==
    /\ proc["mon"].pc = "idle"
    /\ proc["mon"].ticked
    /\ proc["mon"].until = now + WAIT
    /\ \E s \in Sources :
          /\ last_local_update_times[s] > 0
          /\ now - last_local_update_times[s] < GRACE
          /\ ReadState(state_file)[s] > last_change_times[s] + EPS

(* C36 *)

\* C36: when a page request of a refresh is answered with a status other than
\* 200 and the last local edit of the dataset is 5 s old or older, the rows
\* of the pages read before (none, if it was the first page) become the table
\* of the dataset in place of the previous one, and the last-change time is
\* set to the current time and written to version.json.
C36_PartialInstall ==
    [][\A p \in Procs :
         (FetchFinish(p, "http_error")
            /\ now - last_local_update_times[proc[p].src] >= GRACE)
         => /\ dfs'[proc[p].src] = NewDF(proc[p].items)
            /\ Len(dfs'[proc[p].src].rows) < Len(remote[proc[p].src])
            /\ last_change_times'[proc[p].src] = now
            /\ ReadState(state_file')[proc[p].src] = now]_vars

\* the last page request of a refresh of IPS has failed: the table of IPS,
\* which held both rows, holds the rows of the pages before it alone
C36_Witness ==
    /\ [msg |-> "installed", source |-> "IPS", started |-> now] \in log
    /\ Len(remote["IPS"]) = 2
    /\ dfs["IPS"] = NewDF(SubSeq(remote["IPS"], 1,
                                 ((Len(remote["IPS"]) - 1) \div PageSize) * PageSize))
    /\ last_change_times["IPS"] = now
    /\ ReadState(state_file)["IPS"] = now

(* C37 *)

\* C37: an edit request whose ids match no row of the cached table still
\* starts the patch thread for every id of the request and sets
\* monitor_event, while the table stays as it is; the thread then sends the
\* requests for these ids.
C37_DispatchWithoutMatch ==
    [][\A ids \in IdLists, who \in Names, source \in Sources :
         ( /\ UpdateStatus(ids, "REVISADO", who, source)
           /\ Len(ids) > 0
           /\ Matched(dfs[source], ids) = {} )
         => /\ dfs' = dfs
            /\ monitor_event'
            /\ Len(patches') = Len(patches) + 1
            /\ patches'[Len(patches')].source = source
            /\ patches'[Len(patches')].ids = [k \in 1..Len(ids) |-> PyStr(ids[k])]
            /\ patches'[Len(patches')].pc = "auth"]_vars

\* a patch thread has sent the status update of a row that the cached table
\* of its dataset does not hold, and the cache was never edited
C37_Witness ==
    \E w \in 1..Len(patches) :
       LET job == patches[w] IN
       /\ job.source \in Sources
       /\ last_local_update_times[job.source] = 0
       /\ \E n \in 1..Len(job.tries) :
             /\ job.tries[n].field = "REVISADO"
             /\ \A i \in 1..Len(dfs[job.source].rows) :
                   dfs[job.source].rows[i].ID # job.ids[job.tries[n].k]

(* C33 *)

\* C33: in every reachable state the time of the last local edit of a dataset
\* is at most the time of its last change.
C33_EditNotAfterChange ==
    \A s \in Sources : last_local_update_times[s] <= last_change_times[s]

\* a dataset was edited and, after the grace period, a refresh has just
\* installed it
C33_Witness ==
    \E s \in Sources :
       /\ last_local_update_times[s] > 0
       /\ last_change_times[s] > last_local_update_times[s]
       /\ [msg |-> "installed", source |-> s, started |-> now] \in log

(* C34 *)

\* C34: last_emitted_versions[D] is the version of the last server_update for
\* D (it changes only in a step that emits an event with that version); every
\* server_update for D carries a version greater than the one of the event
\* before; and the version last broadcast for D is never greater than
\* last_change_times[D].
C34_VersionsIncrease ==
    /\ [](\A D \in Sources : last_emitted_versions[D] <= last_change_times[D])
    /\ [][\A D \in Sources :
            /\ TickEnds
               => \A e \in emitted' :
                     e.source = D
                     => /\ e.version > last_emitted_versions[D]
                        /\ last_emitted_versions'[D] = e.version
            /\ last_emitted_versions'[D] # last_emitted_versions[D]
               => /\ TickEnds
                  /\ \E e \in emitted' :
                        e.source = D /\ e.version = last_emitted_versions'[D]]_vars

\* a tick has ended with an event for a dataset that a refresh installed and no
\* edit touched, and none for the other dataset: an earlier tick has announced
\* both, with the times of version.json
C34_Witness ==
    /\ proc["mon"].pc = "idle"
    /\ \E D \in Sources :
          /\ last_local_update_times[D] = 0
          /\ \A f \in InitFiles : last_change_times[D] > ReadState(f)[D]
          /\ \E e \in emitted : e.source = D /\ e.version = last_change_times[D]
          /\ last_emitted_versions[D] = last_change_times[D]
          /\ \A d \in Sources \ {D} :
                /\ last_emitted_versions[d] > 0
                /\ \A e \in emitted : e.source # d

(* C38 *)

\* nothing has changed for source D since the service started: version.json
\* is the file found at the start, the time of D is the one loaded from it, D
\* has not been edited, and last_emitted_versions is as background_monitor
\* set it before its loop (no tick has sent a server_update)
AsStarted(D) ==
    /\ state_file \in StartFiles
    /\ last_change_times[D] = ReadState(state_file)[D]
    /\ last_local_update_times[D] = 0
    /\ last_emitted_versions = NoneEmitted

\* C38: the first tick of background_monitor to end emits a server_update for
\* every source whose time loaded from version.json is greater than 0.001 s,
\* with that time as version, although nothing has changed for the source
\* since the start.
C38_FirstTickAnnounces ==
    [][\A D \in Sources :
          (TickEnds /\ AsStarted(D) /\ ReadState(state_file)[D] > EMIT_EPS)
          => [source |-> D, version |-> ReadState(state_file)[D],
              last_updated |-> get_formatted_date(dfs[D])] \in emitted']_vars

\* the first tick has ended with nothing changed since the start: an event
\* for IPS, loaded as 1 s, and none for MTESS, absent from version.json
C38_Witness ==
    /\ proc["mon"].pc = "idle"
    /\ proc["mon"].ticked
    /\ count = NoCount
    /\ state_file \in StartFiles
    /\ ReadState(state_file) = [IPS |-> 1000, MTESS |-> 0]
    /\ last_change_times = ReadState(state_file)
    /\ last_emitted_versions = last_change_times
    /\ emitted = {[source |-> "IPS", version |-> 1000,
                   last_updated |-> get_formatted_date(dfs["IPS"])]}

(* C39 *)

\* the line fetch_data prints when the re-scan leaves the list id of s missing
StillMissing(s) == [msg |-> "Still missing List ID", source |-> s]

\* the step ends background_monitor's fetch_data(D): the items request is
\* answered, or the re-scan is and the list id is still missing
RefreshEnds(D) ==
    /\ proc["mon"].src = D
    /\ \/ \E result \in Results : ItemsFinish("mon", result)
       \/ /\ \E answer \in GraphAnswers, found \in SUBSET ListKeys :
                RescanServe("mon", answer, found)
          /\ StillMissing(D) \in log'

\* the step ends a tick of background_monitor
RetryTickEnds ==
    /\ MonitorTick \/ \E D \in Sources : RefreshEnds(D)
    /\ proc'["mon"].pc = "idle"

\* a refresh of D that does not install leaves the table, the time and
\* version.json as they are
KeepsOnNoInstall ==
    \A D \in Sources :
       (RefreshEnds(D) /\ ~Installed(D)')
       => /\ last_change_times'[D] = last_change_times[D]
          /\ dfs'[D] = dfs[D]
          /\ state_file' = state_file

\* every tick calls fetch_data for a source whose time in version.json, as the
\* tick read it, is more than 0.1 s above the one in memory, when the loop of
\* check_version reaches the source outside its grace period
CallsAgain ==
    /\ MonitorTick
         => \A k \in Decided(1) :
               ( /\ RaisedOutside(SourceOrder[k])
                 /\ now - last_local_update_times[SourceOrder[k]] >= GRACE )
               => CallsFetch(k)
    /\ \A D \in Sources :
         RefreshEnds(D)
         => \A k \in Decided(proc["mon"].idx + 1) :
               ( /\ proc["mon"].fv[SourceOrder[k]]
                       > last_change_times'[SourceOrder[k]] + EPS
                 /\ now - last_local_update_times[SourceOrder[k]] >= GRACE )
               => CallsFetch(k)

\* C39, as stated: a refresh that does not install (list id unresolved, an
\* exception of the request, a discard by the guard) leaves
\* last_change_times unchanged; every tick calls the refresh of a source whose
\* time in version.json is more than 0.1 s above the one in memory, outside
\* the grace period; and a tick that ends with that time still above emits no
\* server_update for the source.
C39_NoEventUntilInstall ==
    [][/\ KeepsOnNoInstall
       /\ CallsAgain
       /\ \A D \in Sources :
            (RetryTickEnds /\ RaisedOutside(D)')
            => \A e \in emitted' : e.source # D]_vars

\* C39, amended: the same, where the tick emits no server_update for the
\* source if the time in memory was broadcast before (it emits one for a time
\* not broadcast yet, as the first tick after the start does).
C39_NoEventOnceBroadcast ==
    [][/\ KeepsOnNoInstall
       /\ CallsAgain
       /\ \A D \in Sources :
            ( /\ RetryTickEnds
              /\ RaisedOutside(D)'
              /\ last_change_times[D] <= last_emitted_versions[D] + EMIT_EPS )
            => \A e \in emitted' : e.source # D]_vars

\* the second tick by timeout has ended with "Still missing List ID" for
\* MTESS, whose time another process raised in version.json before the first
\* tick: both ticks called the refresh, the time in memory is the one loaded
\* and broadcast by the first tick, and the second tick emitted nothing
C39_Witness ==
    /\ proc["mon"].pc = "idle"
    /\ proc["mon"].until = FirstWake + 2 * WAIT
    /\ StillMissing("MTESS") \in log
    /\ ReadState(state_file)["MTESS"] < FirstWake
    /\ RaisedOutside("MTESS")
    /\ last_local_update_times["MTESS"] = 0
    /\ last_emitted_versions["MTESS"] = last_change_times["MTESS"]
    /\ emitted = {}

(* C32 *)

\* every patch thread has ended its loop
WorkersDone == \A w \in 1..Len(patches) : patches[w].pc = "done"

\* every PATCH sent was answered with 200
PatchesSucceeded ==
    \A w \in 1..Len(patches) :
       \A n \in 1..Len(patches[w].tries) : patches[w].tries[n].answer = "200"

\* the rows of the table of s that an edit with a patch thread named
EditedRows(s) ==
    {i \in Rows(dfs[s]) :
        \E w \in 1..Len(patches) :
           /\ patches[w].source = s
           /\ \E k \in 1..Len(patches[w].ids) : patches[w].ids[k] = dfs[s].rows[i].ID}

\* C32: when every patch thread has ended and every PATCH was answered with
\* 200, REVISADO of every edited row is in SharePoint what it is in the cached
\* table, also after two edits of the same row with different values whose
\* threads ran concurrently.
C32_RemoteFollowsCache ==
    (WorkersDone /\ PatchesSucceeded)
    => \A s \in Sources :
          \A i \in EditedRows(s) :
             \A j \in 1..Len(remote[s]) :
                remote[s][j].id = dfs[s].rows[i].ID
                => remote[s][j].REVISADO = dfs[s].rows[i].REVISADO

(* C31 *)

\* C31: a refresh that installs never replaces a table of D that holds the
\* list as SharePoint has it now by a table read from SharePoint before the
\* list changed: of two refreshes of D that overlap, the one that read the
\* list last leaves its table in the cache.
C31_LaterReadStays ==
    [][\A p \in Procs, D \in Sources :
          ( /\ FetchFinish(p, "ok")
            /\ proc[p].src = D
            /\ Installed(D)'
            /\ dfs[D] = NewDF(remote[D]) )
          => dfs'[D] = NewDF(remote[D])]_vars

====
